---- MODULE Spec2Model ----
(***************************************************************************)
(* OpenVoice backend: the chunked enhancement pipeline of AudioProcessor,  *)
(* its lazy model initialization, and the job lifecycle seen through the   *)
(* Celery result backend and the status endpoint.                          *)
(*                                                                         *)
(* The specifications of the module:                                       *)
(*   SpecChunk    enhance_audio's window planning and _merge_chunks        *)
(*   SpecInit     initialize()/enhance_audio(), one call at a time         *)
(*   SpecInitConc the same calls on several threads                        *)
(*   Spec         upload -> worker (process_file) -> poll                  *)
(*   SpecFiles    FileCleanupManager: sweep, delete_file, time left        *)
(*   SpecRetain   one job, its polls and the delete endpoint               *)
(*   SpecQueue    queued jobs, the clock, the metadata expiry              *)
(*   SpecStatus   the status endpoint over any reported task state         *)
(*   SpecUpload   upload requests: validation and processing options       *)
(*   SpecGain     the gain stage of enhance_audio                          *)
(*   SpecNorm     the normalisation of enhance_audio before the model      *)
(*   SpecJobChunk one job whose enhancement runs window by window          *)
(*   SpecFilesConc the sweep with files deleted under it                   *)
(*   SpecTree     the sweep over subdirectories and outside files          *)
(*   SpecExpire   a queued job, the clock and the periodic sweep           *)
(*   SpecDownload one job, the download and the delete endpoint            *)
(***************************************************************************)
EXTENDS Integers, Sequences, FiniteSets, TLC

VARIABLES
    \* ---- enhance_audio chunking (audio_processor.py 161-190, 230-263)
    total_len,              \* audio_tensor.shape[-1]
    max_chunk_samples,      \* self.max_chunk_samples (0 stands for None)
    chunk_overlap_samples,  \* self.chunk_overlap_samples
    overlap,                \* local: min(chunk_overlap_samples, max_chunk_samples // 4)
    start,                  \* local: start of the next window
    chunk_idx,              \* local: 1-based index of the next window
    windows,                \* history: the <<start, end>> of every window handed to the model
    enhanced_chunks,        \* local: list of enhanced chunks
    enhanced,               \* local: the merged / full-buffer result
    cpc,                    \* position inside enhance_audio
    \* ---- AudioProcessor model state (audio_processor.py 26-28, 49-83)
    initialized,            \* self._initialized
    model,                  \* self.model    (0 stands for None)
    df_state,               \* self.df_state (0 stands for None)
    call,                   \* per caller: the initialize()/enhance_audio() call in progress
    calls,                  \* per caller: number of calls begun
    loaderCalls,            \* history: init_df() invocations so far
    loaderSuccesses,        \* history: init_df() invocations that returned
    exhausted,              \* history: some initialize() call has failed all its attempts
    \* ---- job lifecycle (main.py 116-325, celery_worker.py 52-107)
    backend,                \* Celery result backend: task id -> [state, info]
    redis,                  \* redis_client: task id -> metadata or NoMeta
    disk,                   \* files present in the upload and processed directories
    submitted,              \* task ids handed to apply_async
    brokerQueue,            \* tasks submitted and not yet picked up, in order
    worker,                 \* the worker process: the task it runs and where it is
    poll,                   \* the get_task_status request in flight
    response,               \* the last response get_task_status returned
    trail,                  \* history: per task, the backend states written, in order
    \* ---- file retention (file_cleanup.py, main.py 387-430)
    now,                    \* time.time(), in ticks
    mtime,                  \* st_mtime of every file on disk, in ticks
    sweep,                  \* the cleanup_old_files call in progress
    fileOp,                 \* the last FileCleanupManager / delete endpoint call that returned
    \* ---- the amplitude stages of enhance_audio (audio_processor.py 141-151, 192-197)
    audio_in,               \* audio as enhance_audio receives it
    audio_out,              \* audio as it is handed to the model
    instance_gain_db,       \* self.output_gain_db, in dB
    override_gain_db,       \* the output_gain_db argument: <<>> for None, <<g>> for g dB
    gain_in,                \* enhanced as the model and the merge left it
    gain_out,               \* enhanced as enhance_audio returns it
    gpc,                    \* position inside the gain stage
    \* ---- upload_audio (main.py 116-230)
    uploadOut,              \* the last upload request and the response it got
    \* ---- download_processed_audio (main.py 328-384)
    download                \* the download request in flight and the response it got

chunkVars == <<total_len, max_chunk_samples, chunk_overlap_samples, overlap, start,
               chunk_idx, windows, enhanced_chunks, enhanced, cpc>>
initVars  == <<initialized, model, df_state, call, calls, loaderCalls, loaderSuccesses,
               exhausted>>
jobVars   == <<backend, redis, disk, submitted, brokerQueue, worker, poll, response, trail>>
fileVars  == <<now, mtime, sweep, fileOp>>
gainVars  == <<audio_in, audio_out, instance_gain_db, override_gain_db, gain_in, gain_out,
               gpc>>
vars      == <<chunkVars, initVars, jobVars, fileVars, gainVars, uploadOut, download>>

----------------------------------------------------------------------------
(* Bounds of the model *)
MaxN == 15          \* longest input, in samples
MaxC == 8           \* largest max_chunk_samples
MaxO == 3           \* largest chunk_overlap_samples
MaxCalls == 2       \* initialize()/enhance_audio() calls per caller
TicksPerSecond == 2 \* resolution of the clock
MaxNow == 3         \* last tick of the clock
FullScale == 2      \* the amplitude 1.0, in units of the fixed-point samples
MaxAmp == 3         \* largest magnitude of a model output sample, in the same units
MaxSamples == 2     \* longest buffer handed to the gain stage
MaxUploads == 2     \* upload requests made
\* FileCleanupManager.retention_seconds, config.FILE_RETENTION_SECONDS
retention_seconds == 1

Min2(a, b) == IF a <= b THEN a ELSE b
Max2(a, b) == IF a >= b THEN a ELSE b
RECURSIVE SumLen(_)
SumLen(cs) == IF cs = <<>> THEN 0 ELSE Len(Head(cs)) + SumLen(Tail(cs))

RECURSIVE MinLen(_)
MinLen(cs) == IF Len(cs) = 1 THEN Len(cs[1]) ELSE Min2(Len(cs[1]), MinLen(Tail(cs)))

RECURSIVE ConcatReversed(_)
ConcatReversed(cs) == IF cs = <<>> THEN <<>> ELSE ConcatReversed(Tail(cs)) \o Head(cs)

\* np.concatenate(chunks)
RECURSIVE Concat(_)
Concat(cs) == IF cs = <<>> THEN <<>> ELSE Head(cs) \o Concat(Tail(cs))

----------------------------------------------------------------------------
(* enhance_audio: planning the windows, invoking the model, merging *)

\* A sample of the model's output for window idx at input position p (0-based).
Sample(idx, p) == <<idx, p>>
\* np.zeros: a slot of the output buffer not written yet.
Zero == <<0, 0>>
\* output*fade_out + chunk*fade_in at place j of a fade of fade_len samples:
\* fade_in = np.linspace(0, 1, fade_len), so the new chunk's weight is j/(fade_len-1)
\* (and 0 when fade_len = 1).
Blend(prev, cur, j, fade_len) == <<prev, cur, j, fade_len>>

\* _run_enhance on audio_tensor[..., s:e]: the model preserves the length.
RunEnhance(idx, s, e) == [k \in 1..(e - s) |-> Sample(idx, s + k - 1)]

UseChunksAlways(n, c) == c # 0
\* line 162: chunked processing is used iff max_chunk_samples is truthy and exceeded.
UseChunks(n, c) == c # 0 /\ n > c

PlanOverlapUncapped(o, c) == o
\* line 168
PlanOverlap(o, c) == Min2(o, c \div 4)

WindowEndUnclamped(s, c, n) == s + c
\* line 174
WindowEnd(s, c, n) == Min2(s + c, n)

NextStartNoOverlap(e, ov) == e
\* line 185
NextStart(e, ov) == IF ov > 0 THEN e - ov ELSE e

\* line 239
SafeOverlap(chunks, overlap_samples) == Min2(overlap_samples, MinLen(chunks) \div 2)

\* lines 244-261: one iteration of the merge loop for chunk idx >= 2; st is
\* <<output, write_pos>>.
MergeOne(st, chunk, safe_overlap) ==
    LET output    == st[1]
        write_pos == st[2]
        mstart    == write_pos - safe_overlap
        fade_len  == safe_overlap
        mend      == mstart + fade_len + (Len(chunk) - fade_len)
        out2 == [i \in 1..Len(output) |->
                    IF i - 1 >= mstart /\ i - 1 < write_pos
                    THEN Blend(output[i], chunk[i - mstart], i - 1 - mstart, fade_len)
                    ELSE IF i - 1 >= mstart + fade_len /\ i - 1 < mend
                    THEN chunk[i - mstart]
                    ELSE output[i]]
    IN <<out2, mend>>

RECURSIVE MergeLoop(_, _, _, _)
MergeLoop(st, chunks, idx, safe_overlap) ==
    IF idx > Len(chunks) THEN st[1]
    ELSE MergeLoop(MergeOne(st, chunks[idx], safe_overlap), chunks, idx + 1, safe_overlap)

\* _merge_chunks
MergeChunks(chunks, overlap_samples) ==
    IF chunks = <<>> THEN <<>>
    ELSE IF Len(chunks) = 1 \/ overlap_samples <= 0 THEN Concat(chunks)
    ELSE LET safe_overlap == SafeOverlap(chunks, overlap_samples)
             tlen   == SumLen(chunks) - safe_overlap * (Len(chunks) - 1)
             first  == chunks[1]
             output == [i \in 1..tlen |-> IF i <= Len(first) THEN first[i] ELSE Zero]
         IN MergeLoop(<<output, Len(first)>>, chunks, 2, safe_overlap)

ChunkIdle ==
    /\ total_len = 0 /\ max_chunk_samples = 0 /\ chunk_overlap_samples = 0
    /\ overlap = 0 /\ start = 0 /\ chunk_idx = 0
    /\ windows = <<>> /\ enhanced_chunks = <<>> /\ enhanced = <<>>
    /\ cpc = "off"

\* An AudioProcessor configured per __init__ (lines 30-35) and an input of
\* total_len samples entering enhance_audio.
ChunkInit ==
    /\ total_len \in 1..MaxN
    /\ max_chunk_samples \in 0..MaxC
    /\ chunk_overlap_samples \in 0..MaxO
    /\ overlap = 0 /\ start = 0 /\ chunk_idx = 0
    /\ windows = <<>> /\ enhanced_chunks = <<>> /\ enhanced = <<>>
    /\ cpc = "decide"

\* lines 162-171: choose chunked processing and set the loop up.
EnhanceChunked ==
    /\ cpc = "decide"
    /\ UseChunks(total_len, max_chunk_samples)
    /\ overlap' = PlanOverlap(chunk_overlap_samples, max_chunk_samples)
    /\ start' = 0
    /\ chunk_idx' = 1
    /\ cpc' = "loop"
    /\ UNCHANGED <<total_len, max_chunk_samples, chunk_overlap_samples, windows,
                   enhanced_chunks, enhanced>>
    /\ UNCHANGED <<initVars, jobVars, fileVars, gainVars, uploadOut, download>>

\* lines 189-190: the whole buffer in one model invocation.
EnhanceFull ==
    /\ cpc = "decide"
    /\ ~UseChunks(total_len, max_chunk_samples)
    /\ \E ok \in BOOLEAN :
        IF ok
        THEN /\ enhanced' = RunEnhance(1, 0, total_len)
             /\ windows' = Append(windows, <<0, total_len>>)
             /\ cpc' = "done"
        ELSE /\ windows' = Append(windows, <<0, total_len>>)
             /\ cpc' = "failed"
             /\ UNCHANGED enhanced
    /\ UNCHANGED <<total_len, max_chunk_samples, chunk_overlap_samples, overlap, start,
                   chunk_idx, enhanced_chunks>>
    /\ UNCHANGED <<initVars, jobVars, fileVars, gainVars, uploadOut, download>>

\* lines 173-186: one iteration of the while loop; the model call may raise,
\* which leaves enhance_audio through its except clause (lines 203-205).
ChunkStep ==
    /\ cpc = "loop"
    /\ start < total_len
    /\ LET end == WindowEnd(start, max_chunk_samples, total_len) IN
       /\ windows' = Append(windows, <<start, end>>)
       /\ \E ok \in BOOLEAN :
            IF ok
            THEN /\ enhanced_chunks' = Append(enhanced_chunks, RunEnhance(chunk_idx, start, end))
                 /\ IF end >= total_len
                    THEN cpc' = "merge" /\ UNCHANGED <<start, chunk_idx>>
                    ELSE /\ start' = NextStart(end, overlap)
                         /\ chunk_idx' = chunk_idx + 1
                         /\ cpc' = "loop"
            ELSE /\ cpc' = "failed"
                 /\ UNCHANGED <<enhanced_chunks, start, chunk_idx>>
    /\ UNCHANGED <<total_len, max_chunk_samples, chunk_overlap_samples, overlap, enhanced>>
    /\ UNCHANGED <<initVars, jobVars, fileVars, gainVars, uploadOut, download>>

\* line 188
MergeStep ==
    /\ cpc = "merge"
    /\ enhanced' = MergeChunks(enhanced_chunks, overlap)
    /\ cpc' = "done"
    /\ UNCHANGED <<total_len, max_chunk_samples, chunk_overlap_samples, overlap, start,
                   chunk_idx, windows, enhanced_chunks>>
    /\ UNCHANGED <<initVars, jobVars, fileVars, gainVars, uploadOut, download>>

ChunkNext ==
    \/ EnhanceChunked
    \/ EnhanceFull
    \/ ChunkStep
    \/ MergeStep

----------------------------------------------------------------------------
(* AudioProcessor.initialize: lazy model loading with retries *)

Callers == {"a", "b"}

\* for attempt in range(3)  (line 61)
Attempts == 3

BackoffLinear(attempt) == attempt + 1
\* line 72: wait = 2 ** attempt
BackoffWait(attempt) == 2 ^ attempt

\* What init_df() can do: return the handles, raise, or call sys.exit.
LoaderOutcomes == {"ok", "raise", "exit"}

EntryTargetSticky(init, exh) ==
    IF init THEN "return" ELSE IF exh THEN "check" ELSE "attempt"
EntryTargetAlways(init, exh) == "attempt"
\* lines 51-52: the entry check reads self._initialized and nothing else; that
\* an earlier call has used up its attempts (exh) is recorded nowhere.
EntryTarget(init, exh) == IF init THEN "return" ELSE "attempt"

NoCall == [pc |-> "idle", kind |-> "none", attempt |-> 0, loads |-> 0, waits |-> <<>>,
           fails |-> <<>>, raised |-> 0, sawInit |-> FALSE, afterExhaust |-> FALSE,
           outcome |-> "none"]

\* __init__ (lines 26-28)
InitIdle ==
    /\ initialized = FALSE
    /\ model = 0
    /\ df_state = 0
    /\ call = [t \in Callers |-> NoCall]
    /\ calls = [t \in Callers |-> 0]
    /\ loaderCalls = 0
    /\ loaderSuccesses = 0
    /\ exhausted = FALSE

\* A worker process that has served a job: the model is loaded (lines 64-67).
InitWarm ==
    /\ initialized = TRUE
    /\ model = 1
    /\ df_state = 1
    /\ call = [t \in Callers |-> NoCall]
    /\ calls = [t \in Callers |-> 0]
    /\ loaderCalls = 1
    /\ loaderSuccesses = 1
    /\ exhausted = FALSE

AllIdle == \A t \in Callers : call[t].pc = "idle"

\* The record of a call that begins now.
NewCall(kind) == [NoCall EXCEPT !.kind = kind, !.sawInit = initialized,
                                !.afterExhaust = exhausted]

\* The entry of initialize() (lines 51-53) reached by the call in record c.
Entered(c) ==
    LET target == EntryTarget(initialized, exhausted) IN
    IF target = "return" THEN [c EXCEPT !.pc = "idle", !.outcome = "ok"]
    ELSE [c EXCEPT !.pc = target]

\* initialize() called directly.
Initialize(t) ==
    /\ call[t].pc = "idle"
    /\ call' = [call EXCEPT ![t] = Entered(NewCall("initialize"))]
    /\ calls' = [calls EXCEPT ![t] = @ + 1]
    /\ UNCHANGED <<initialized, model, df_state, loaderCalls, loaderSuccesses, exhausted>>
    /\ UNCHANGED <<chunkVars, jobVars, fileVars, gainVars, uploadOut, download>>

\* enhance_audio() lines 133-134: initialize() is called only if the flag is unset;
\* with the flag set the call goes on to the enhancement itself.
EnhanceAudioCall(t) ==
    /\ call[t].pc = "idle"
    /\ call' = [call EXCEPT ![t] =
                  IF ~initialized
                  THEN [NewCall("enhance_audio") EXCEPT !.pc = "enter"]
                  ELSE [NewCall("enhance_audio") EXCEPT !.outcome = "ok"]]
    /\ calls' = [calls EXCEPT ![t] = @ + 1]
    /\ UNCHANGED <<initialized, model, df_state, loaderCalls, loaderSuccesses, exhausted>>

\* enhance_audio() called directly.
EnhanceAudio(t) ==
    /\ EnhanceAudioCall(t)
    /\ UNCHANGED <<chunkVars, jobVars, fileVars, gainVars, uploadOut, download>>

\* initialize() entered from enhance_audio (line 134 -> line 51).
InitializeEnter(t) ==
    /\ call[t].pc = "enter"
    /\ call' = [call EXCEPT ![t] = Entered(@)]
    /\ UNCHANGED <<initialized, model, df_state, calls, loaderCalls, loaderSuccesses,
                   exhausted>>
    /\ UNCHANGED <<chunkVars, jobVars, fileVars, gainVars, uploadOut, download>>

\* lines 61-74: one iteration of the retry loop. A returning loader sets the
\* handles and the flag and leaves the loop; a raising or exiting one is caught,
\* the call sleeps `wait` seconds and goes to the next iteration.
InitAttempt(t) ==
    /\ call[t].pc = "attempt"
    /\ loaderCalls' = loaderCalls + 1
    /\ \E o \in LoaderOutcomes :
        IF o = "ok"
        THEN /\ model' = loaderSuccesses + 1
             /\ df_state' = loaderSuccesses + 1
             /\ initialized' = TRUE
             /\ loaderSuccesses' = loaderSuccesses + 1
             /\ call' = [call EXCEPT ![t].loads = @ + 1, ![t].pc = "check"]
        ELSE /\ call' = [call EXCEPT
                    ![t].loads = @ + 1,
                    ![t].fails = Append(@, o),
                    ![t].waits = Append(@, BackoffWait(call[t].attempt)),
                    ![t].attempt = @ + 1,
                    ![t].pc = IF call[t].attempt + 1 < Attempts THEN "attempt" ELSE "check"]
             /\ UNCHANGED <<model, df_state, initialized, loaderSuccesses>>
    /\ UNCHANGED <<calls, exhausted>>
    /\ UNCHANGED <<chunkVars, jobVars, fileVars, gainVars, uploadOut, download>>

\* lines 76-83: after the loop, raise unless the flag is set.
InitFinish(t) ==
    /\ call[t].pc = "check"
    /\ IF initialized
       THEN /\ call' = [call EXCEPT ![t].pc = "idle", ![t].outcome = "ok"]
            /\ UNCHANGED exhausted
       ELSE /\ call' = [call EXCEPT ![t].pc = "idle", ![t].outcome = "error",
                                    ![t].raised = @ + 1]
            /\ exhausted' = TRUE
    /\ UNCHANGED <<initialized, model, df_state, calls, loaderCalls, loaderSuccesses>>
    /\ UNCHANGED <<chunkVars, jobVars, fileVars, gainVars, uploadOut, download>>

\* Callers use the processor one after the other (a prefork worker process runs
\* one task at a time).
InitNext ==
    \/ \E t \in Callers : AllIdle /\ calls[t] < MaxCalls /\ Initialize(t)
    \/ \E t \in Callers : AllIdle /\ calls[t] < MaxCalls /\ EnhanceAudio(t)
    \/ \E t \in Callers : InitializeEnter(t)
    \/ \E t \in Callers : InitAttempt(t)
    \/ \E t \in Callers : InitFinish(t)

\* Callers on several threads of one process.
InitConcNext ==
    \/ \E t \in Callers : calls[t] < MaxCalls /\ Initialize(t)
    \/ \E t \in Callers : calls[t] < MaxCalls /\ EnhanceAudio(t)
    \/ \E t \in Callers : InitializeEnter(t)
    \/ \E t \in Callers : InitAttempt(t)
    \/ \E t \in Callers : InitFinish(t)

----------------------------------------------------------------------------
(* enhance_audio: the gain stage *)

\* Samples are fixed-point amplitudes, FullScale units to 1.0. Gains are
\* multiples of 20 dB, whose factors 10 ** (gain_db / 20) are whole numbers.
GainsDb == {0, 20, 40}
Amplitudes == (0 - MaxAmp)..MaxAmp

RECURSIVE Buffers(_)
Buffers(n) == IF n = 0 THEN {<<>>}
              ELSE Buffers(n - 1) \cup
                   {Append(b, a) : b \in {c \in Buffers(n - 1) : Len(c) = n - 1},
                                   a \in Amplitudes}

\* line 151: the argument when given, the instance's default otherwise
GainDb(override, instance) == IF override # <<>> THEN override[1] ELSE instance

\* line 193: `if gain_db and gain_db != 0`
GainApplies(gain_db) == gain_db # 0

\* line 194: 10 ** (gain_db / 20)
GainFactor(gain_db) == 10 ^ (gain_db \div 20)

\* line 197: np.clip(enhanced, -1.0, 1.0)
Clip(x) == IF x > FullScale THEN FullScale ELSE IF x < 0 - FullScale THEN 0 - FullScale ELSE x

\* lines 193-197
GainStage(samples, gain_db) ==
    IF GainApplies(gain_db)
    THEN [k \in 1..Len(samples) |-> Clip(samples[k] * GainFactor(gain_db))]
    ELSE samples

GainIdle ==
    /\ audio_in = <<>> /\ audio_out = <<>>
    /\ instance_gain_db = 0 /\ override_gain_db = <<>>
    /\ gain_in = <<>> /\ gain_out = <<>> /\ gpc = "off"

Abs(x) == IF x < 0 THEN 0 - x ELSE x

\* The results a division n / d (d > 0) rounded to the nearest representable
\* value can give, on the grid of the samples; a tie goes either way.
RoundDiv(n, d) ==
    LET q == Abs(n) \div d
        r == Abs(n) % d
        m == IF 2 * r < d THEN {q} ELSE IF 2 * r > d THEN {q + 1} ELSE {q, q + 1}
    IN  {IF n < 0 THEN 0 - v ELSE v : v \in m}

RECURSIVE MaxOf(_)
MaxOf(samples) ==
    IF Len(samples) = 1 THEN samples[1] ELSE Max2(samples[1], MaxOf(Tail(samples)))

PeakSigned(samples) == MaxOf(samples)

\* lines 146-147: np.abs(audio).max(), of a buffer that is not empty
Peak(samples) == MaxOf([k \in 1..Len(samples) |-> Abs(samples[k])])

\* lines 146-147: the buffers `audio / np.abs(audio).max()` can give when the
\* peak exceeds 1.0, the buffer itself otherwise
Normalize(samples) ==
    IF Peak(samples) > FullScale
    THEN {b \in [1..Len(samples) -> (0 - FullScale - 1)..(FullScale + 1)] :
            \A k \in 1..Len(samples) :
               b[k] \in RoundDiv(samples[k] * FullScale, Peak(samples))}
    ELSE {samples}

\* enhance_audio called with the audio load_audio returned, before line 141.
NormInit ==
    /\ audio_in \in Buffers(MaxSamples)
    /\ audio_out = <<>>
    /\ instance_gain_db = 0 /\ override_gain_db = <<>>
    /\ gain_in = <<>> /\ gain_out = <<>>
    /\ gpc = "normalize"

\* lines 141-147; .max() of an empty array raises, which line 203 re-raises as
\* a failure of the enhancement
NormStep ==
    /\ gpc = "normalize"
    /\ IF audio_in = <<>>
       THEN audio_out' = <<>> /\ gpc' = "failed"
       ELSE audio_out' \in Normalize(audio_in) /\ gpc' = "model"
    /\ UNCHANGED <<audio_in, instance_gain_db, override_gain_db, gain_in, gain_out>>
    /\ UNCHANGED <<chunkVars, initVars, jobVars, fileVars, uploadOut, download>>

NormNext == NormStep

\* enhance_audio with the model's (merged) output in hand, before line 192.
GainInit ==
    /\ instance_gain_db \in GainsDb
    /\ override_gain_db \in {<<>>} \cup {<<g>> : g \in GainsDb}
    /\ audio_in = <<>> /\ audio_out = <<>>
    /\ gain_in \in Buffers(MaxSamples) \ {<<>>}
    /\ gain_out = <<>>
    /\ gpc = "gain"

\* lines 151, 192-201
GainStep ==
    /\ gpc = "gain"
    /\ gain_out' = GainStage(gain_in, GainDb(override_gain_db, instance_gain_db))
    /\ gpc' = "returned"
    /\ UNCHANGED <<audio_in, audio_out, instance_gain_db, override_gain_db, gain_in>>
    /\ UNCHANGED <<chunkVars, initVars, jobVars, fileVars, uploadOut, download>>

GainNext == GainStep

----------------------------------------------------------------------------
(* The job lifecycle: upload, the Celery worker running process_file, polling *)

Tasks == {"t1", "t2"}
Exts  == {"wav", "mp3"}
\* The worker process's module-level audio_processor is used by one caller.
W == "a"
NoTask == "none"
NoPath == <<>>
Absent == -1

\* celery_worker.py line 70: the progress stored with state PROCESSING
ProcessingProgress == 10
\* celery_worker.py line 97 / main.py line 279
CompletedProgress == 100
\* main.py line 275: task_info.get('progress', 50)
DefaultProgress == 50

\* config.FILE_RETENTION_SECONDS on the clock of the model
RetentionTicks == retention_seconds * TicksPerSecond

\* The modification times after the files in `paths` were written at time t;
\* dsk is the set of files then present.
Written(mt, paths, dsk, t) ==
    [p \in dsk |-> IF p \in paths \/ p \notin DOMAIN mt THEN t ELSE mt[p]]

\* main.py lines 145-149
UploadPath(t) == <<"uploads", t>>
ProcessedPath(t, e) == <<"processed", t, e>>
\* audio_processor.py line 272: target_path.with_suffix(".wav")
WavPath(p) == <<p[1], p[2], "wav">>
PathExt(p) == p[3]
\* Path(p).exists(); Path('') is the working directory
Exists(p, dsk) == p = NoPath \/ p \in dsk

\* task_result.info by kind: None, a dict (state meta or the task's return value),
\* or the exception instance of a failed task.
NoneInfo == [type |-> "none", progress |-> Absent, output_path |-> NoPath, msg |-> <<>>]
\* the {pid, hostname} meta Celery stores with STARTED
StartedInfo == [type |-> "dict", progress |-> Absent, output_path |-> NoPath, msg |-> <<>>]
\* celery_worker.py lines 68-71
ProcessingMeta ==
    [type |-> "dict", progress |-> ProcessingProgress, output_path |-> NoPath, msg |-> <<>>]
\* celery_worker.py lines 90-98
SuccessInfo(final_output_path) ==
    [type |-> "dict", progress |-> CompletedProgress, output_path |-> final_output_path,
     msg |-> <<>>]
\* celery_worker.py lines 101, 107: the exception Celery stores with FAILURE
FailureInfo(msg) == [type |-> "exc", progress |-> Absent, output_path |-> NoPath, msg |-> msg]

\* celery.states.READY_STATES among the states this application produces: an
\* AsyncResult caches the task meta only once the state is one of these.
ReadyStates == {"SUCCESS", "FAILURE"}

NoResult == [success |-> FALSE, fields |-> {}, output_path |-> NoPath, error |-> <<>>]
\* process_file lines 341-348
PFSuccess(final_output_path) ==
    [success |-> TRUE,
     fields |-> {"success", "duration_seconds", "sample_rate", "output_size_bytes",
                 "output_size_mb", "output_path"},
     output_path |-> final_output_path, error |-> <<>>]

PFExceptReraise(msg) == [raised |-> TRUE, result |-> NoResult]
\* process_file lines 350-355: every exception of a stage is turned into a
\* failure result.
PFExcept(msg) ==
    [raised |-> FALSE,
     result |-> [success |-> FALSE, fields |-> {"success", "error"},
                 output_path |-> NoPath, error |-> msg]]

IdleWorker == [task |-> NoTask, pc |-> "idle", input_path |-> NoPath,
               output_path |-> NoPath, final_output_path |-> NoPath,
               written |-> {}, result |-> NoResult, failed |-> "none",
               cause |-> <<>>, raised |-> FALSE]
NoMeta == [present |-> FALSE, queue_position |-> 0, upload_path |-> NoPath,
           processed_path |-> NoPath, expires_at |-> 0]
\* prev is history: the progress the last response reported, when that
\* response was for the same task.
NoPoll == [pc |-> "idle", task |-> NoTask, known |-> FALSE, meta |-> NoMeta,
           first |-> [state |-> "PENDING", info |-> NoneInfo], prev |-> Absent]
NoResponse == [task_id |-> NoTask]

\* No download request yet; status_code 0 stands for no response yet.
NoDownload == [pc |-> "idle", task_id |-> NoTask, state |-> "PENDING",
               output_path |-> NoPath, existed |-> FALSE, status_code |-> 0,
               file |-> NoPath]

\* proc_options = {}
NoOptions == [k \in {} |-> 0]

\* No upload request made yet.
NoRequest == [ext |-> "", file_size |-> 0, mime_ok |-> FALSE, is_clean |-> FALSE,
              noise_strength |-> <<>>]
NoUpload == [seq |-> 0, status_code |-> 0, task_id |-> NoTask, request |-> NoRequest,
             proc_options |-> NoOptions]

JobIdle ==
    /\ backend = [t \in Tasks |-> [state |-> "PENDING", info |-> NoneInfo]]
    /\ redis = [t \in Tasks |-> NoMeta]
    /\ submitted = {}
    /\ brokerQueue = <<>>
    /\ worker = IdleWorker
    /\ poll = NoPoll
    /\ response = NoResponse
    /\ trail = [t \in Tasks |-> [states |-> <<"PENDING">>, pf |-> "none", cause |-> <<>>,
                                  queue_position |-> 0]]
    /\ uploadOut = NoUpload
    /\ download = NoDownload

\* The worker stores a state in the result backend; pf is what process_file
\* has done for the task by then and cause the message of the error a stage
\* raised, if one did.
Store(t, state, info, pf, cause) ==
    /\ backend' = [backend EXCEPT ![t] = [state |-> state, info |-> info]]
    /\ trail' = [trail EXCEPT ![t].states = Append(@, state), ![t].pf = pf,
                               ![t].cause = cause]

\* config.py lines 17-18: MAX_FILE_SIZE_MB = 50 megabytes
MAX_FILE_SIZE_BYTES == 52428800

\* validate_file_extension, file_handler.py lines 40-43: the extensions of
\* the model's files are allowed ones, "exe" is not.
validate_file_extension(ext) == ext \in Exts

validate_file_size_strict(file_size) == file_size < MAX_FILE_SIZE_BYTES
\* validate_file_size, file_handler.py lines 34-37
validate_file_size(file_size) == ~(file_size > MAX_FILE_SIZE_BYTES)

RejectedFilesKept(dsk, upload_path) == dsk
\* main.py lines 159, 165: upload_path.unlink() before the 400 is raised
RejectedFiles(dsk, upload_path) == dsk \ {upload_path}

\* round(x, 2) of a value given in thousandths, as hundredths; which way a
\* value halfway between two hundredths goes depends on its binary
\* representation.
Round2(x) ==
    LET q == x \div 10
        r == x % 10
    IN  IF r < 5 THEN {q} ELSE IF r > 5 THEN {q + 1} ELSE {q, q + 1}

ProcOptionsUnclamped(noise_strength) ==
    IF noise_strength = <<>> THEN {NoOptions}
    ELSE {[k \in {"attenuation_limit_db", "output_gain_db"} |->
             IF k = "attenuation_limit_db" THEN 600 + noise_strength[1] * 2
             ELSE Max2(0, g)] : g \in Round2(Max2(0, 2000 - noise_strength[1]))}

\* main.py lines 200-206. noise_strength is <<>> for None and <<s>> for a
\* slider value of s hundredths; the options are in hundredths of a dB:
\* 6 + strength * 2 and max(0.0, round(2.0 - strength * 0.1, 2)).
ProcOptions(noise_strength) ==
    IF noise_strength = <<>> THEN {NoOptions}
    ELSE LET strength == Max2(0, Min2(1000, noise_strength[1]))
         IN {[k \in {"attenuation_limit_db", "output_gain_db"} |->
                IF k = "attenuation_limit_db" THEN 600 + strength * 2
                ELSE Max2(0, g)] : g \in Round2(2000 - strength)}

\* The extensions, sizes and slider values of the upload requests made.
RequestExts == Exts \cup {"exe"}
Sizes == {MAX_FILE_SIZE_BYTES - 1, MAX_FILE_SIZE_BYTES, MAX_FILE_SIZE_BYTES + 1}
Strengths == {<<>>, <<0 - 100>>, <<5>>, <<500>>, <<1200>>}
Requests == [ext : RequestExts, file_size : Sizes, mime_ok : BOOLEAN, is_clean : BOOLEAN,
             noise_strength : Strengths]

\* upload_audio, lines 127-224. A request whose extension or size is refused
\* gets a 400 before anything is written (129-140); one whose MIME type or
\* virus scan is refused has its file written and unlinked again, and gets a
\* 400 (151-165). For an accepted one the upload is written, the queue
\* position is taken from the inspected active and reserved counts and stored
\* with the metadata, and the task is submitted with the processing options.
\* Task ids are fresh uuids: "t1" names the first one handed out.
UploadAudio(t, req) ==
    /\ t \notin submitted
    /\ t = "t2" => "t1" \in submitted
    /\ uploadOut.seq < MaxUploads
    /\ IF ~validate_file_extension(req.ext) \/ ~validate_file_size(req.file_size)
       THEN /\ uploadOut' = [NoUpload EXCEPT !.seq = uploadOut.seq + 1,
                                             !.status_code = 400, !.request = req]
            /\ UNCHANGED <<disk, mtime, redis, trail, brokerQueue, submitted>>
       ELSE IF ~req.mime_ok \/ ~req.is_clean
       THEN /\ disk' = RejectedFiles(disk \cup {UploadPath(t)}, UploadPath(t))
            /\ mtime' = Written(mtime, {UploadPath(t)}, disk', now)
            /\ uploadOut' = [NoUpload EXCEPT !.seq = uploadOut.seq + 1,
                                             !.status_code = 400, !.request = req]
            /\ UNCHANGED <<redis, trail, brokerQueue, submitted>>
       ELSE /\ disk' = disk \cup {UploadPath(t)}
            /\ mtime' = Written(mtime, {UploadPath(t)}, disk', now)
            /\ \E reserved_count \in 0..Len(brokerQueue) :
                LET active_count   == IF worker.task # NoTask THEN 1 ELSE 0
                    queue_position == active_count + reserved_count
                IN /\ redis' = [redis EXCEPT ![t] =
                                  [present |-> TRUE, queue_position |-> queue_position,
                                   upload_path |-> UploadPath(t),
                                   processed_path |-> ProcessedPath(t, req.ext),
                                   expires_at |-> now + RetentionTicks]]
                   /\ trail' = [trail EXCEPT ![t].queue_position = queue_position]
            /\ \E proc_options \in ProcOptions(req.noise_strength) :
                /\ brokerQueue' = Append(brokerQueue,
                                     [task_id |-> t, input_path |-> UploadPath(t),
                                      output_path |-> ProcessedPath(t, req.ext),
                                      options |-> proc_options])
                /\ uploadOut' = [seq |-> uploadOut.seq + 1, status_code |-> 200,
                                 task_id |-> t, request |-> req,
                                 proc_options |-> proc_options]
            /\ submitted' = submitted \cup {t}
    /\ UNCHANGED <<backend, worker, poll, response>>
    /\ UNCHANGED <<chunkVars, initVars, now, sweep, fileOp, gainVars, download>>

\* upload_audio for a file that passes every validation, sent without a
\* noise_strength.
Upload(t, e) ==
    UploadAudio(t, [ext |-> e, file_size |-> MAX_FILE_SIZE_BYTES, mime_ok |-> TRUE,
                    is_clean |-> TRUE, noise_strength |-> <<>>])

\* The worker takes the next task; with task_track_started=True
\* (celery_worker.py line 27) Celery stores STARTED before running the body.
WorkerPickup ==
    /\ worker.pc = "idle"
    /\ brokerQueue # <<>>
    /\ LET m == Head(brokerQueue) IN
       /\ worker' = [IdleWorker EXCEPT !.task = m.task_id, !.pc = "started",
                                      !.input_path = m.input_path,
                                      !.output_path = m.output_path]
       /\ Store(m.task_id, "STARTED", StartedInfo, "none", <<>>)
    /\ brokerQueue' = Tail(brokerQueue)
    /\ UNCHANGED <<redis, disk, submitted, poll, response>>
    /\ UNCHANGED <<chunkVars, initVars, fileVars, gainVars, uploadOut, download>>

\* process_audio_task lines 66-72
WorkerUpdateState ==
    /\ worker.pc = "started"
    /\ Store(worker.task, "PROCESSING", ProcessingMeta, "none", <<>>)
    /\ worker' = [worker EXCEPT !.pc = "load"]
    /\ UNCHANGED <<redis, disk, submitted, brokerQueue, poll, response>>
    /\ UNCHANGED <<chunkVars, initVars, fileVars, gainVars, uploadOut, download>>

\* The message of the error raised inside a stage. Messages are sequences of
\* pieces of text; str(e) of an exception built from one string is that string.
StageError(stage) == <<stage>>

\* initialize lines 66-70: last_err is the exception of the last attempt, a
\* SystemExit being wrapped (line 68).
LastErr(fails) ==
    LET o == fails[Len(fails)] IN
    IF o = "exit" THEN <<"DeepFilterNet init aborted (SystemExit): ">> \o StageError("init")
    ELSE StageError("init")

\* The message of the exception that reaches the except clause of process_file
\* for an error raised in a stage: load_audio (line 113), enhance_audio (line
\* 205) and save_audio (line 305) wrap it, initialize wraps it twice (lines 77
\* and 83), the stat of line 339 raises it as it is.
Wrapped(stage, err) ==
    CASE stage = "load" -> <<"Failed to load audio file: ">> \o err
      [] stage \in {"chunk", "merge", "gain"} -> <<"Failed to enhance audio: ">> \o err
      [] stage = "init" ->
            <<"Failed to initialize audio processing model: ",
              "Failed to initialize DeepFilterNet after retries: ">> \o err
      [] stage = "save" -> <<"Failed to save audio file: ">> \o err
      [] OTHER -> err

\* A stage of process_file raised err: control goes to the except clause.
PFFail(stage, err) ==
    worker' = [worker EXCEPT !.pc = "returned", !.failed = stage,
                             !.cause = StageError(stage),
                             !.result = PFExcept(Wrapped(stage, err)).result,
                             !.raised = PFExcept(Wrapped(stage, err)).raised]

\* process_file line 322: load_audio
PFLoad ==
    /\ worker.pc = "load"
    /\ \E ok \in BOOLEAN :
        IF ok /\ worker.input_path \in disk
        THEN worker' = [worker EXCEPT !.pc = "enhance"]
        ELSE PFFail("load", StageError("load"))
    /\ UNCHANGED <<backend, redis, disk, submitted, brokerQueue, poll, response, trail>>
    /\ UNCHANGED <<chunkVars, initVars, fileVars, gainVars, uploadOut, download>>

\* process_file line 328 -> enhance_audio lines 133-134
PFEnhanceCall ==
    /\ worker.pc = "enhance"
    /\ EnhanceAudioCall(W)
    /\ worker' = [worker EXCEPT !.pc = "init"]
    /\ UNCHANGED <<backend, redis, disk, submitted, brokerQueue, poll, response, trail>>
    /\ UNCHANGED <<chunkVars, fileVars, gainVars, uploadOut, download>>

\* The steps of initialize() run by the worker's enhance_audio call.
PFInitStep ==
    /\ worker.pc = "init"
    /\ \/ InitializeEnter(W)
       \/ InitAttempt(W)
       \/ InitFinish(W)

\* initialize() has returned or raised (its RuntimeError leaves enhance_audio,
\* which calls it outside its own try block, and is caught by process_file);
\* the call's frame is gone.
PFInitDone ==
    /\ worker.pc = "init"
    /\ call[W].pc = "idle"
    /\ IF call[W].outcome = "ok"
       THEN worker' = [worker EXCEPT !.pc = "model"]
       ELSE PFFail("init", LastErr(call[W].fails))
    /\ call' = [call EXCEPT ![W] = NoCall]
    /\ UNCHANGED <<initialized, model, df_state, calls, loaderCalls, loaderSuccesses,
                   exhausted>>
    /\ UNCHANGED <<backend, redis, disk, submitted, brokerQueue, poll, response, trail>>
    /\ UNCHANGED <<chunkVars, fileVars, gainVars, uploadOut, download>>

\* enhance_audio lines 136-205: the model invocations, the merge and the gain;
\* an exception in any of them is re-raised as "Failed to enhance audio".
PFModel ==
    /\ worker.pc = "model"
    /\ \E stage \in {"none", "chunk", "merge", "gain"} :
        IF stage = "none"
        THEN worker' = [worker EXCEPT !.pc = "save"]
        ELSE PFFail(stage, StageError(stage))
    /\ UNCHANGED <<backend, redis, disk, submitted, brokerQueue, poll, response, trail>>
    /\ UNCHANGED <<chunkVars, initVars, fileVars, gainVars, uploadOut, download>>

\* process_file line 328 -> enhance_audio line 136: the audio loaded, of some
\* length, enters the enhancement with the processor's chunk settings.
PFModelStart ==
    /\ worker.pc = "model"
    /\ cpc = "off"
    /\ total_len' \in 1..MaxN
    /\ max_chunk_samples' \in 0..MaxC
    /\ chunk_overlap_samples' \in 0..MaxO
    /\ cpc' = "decide"
    /\ UNCHANGED <<overlap, start, chunk_idx, windows, enhanced_chunks, enhanced>>
    /\ UNCHANGED <<initVars, jobVars, fileVars, gainVars, uploadOut, download>>

EnhanceSwallows(c) == FALSE

\* enhance_audio lines 203-205: an exception of a model invocation leaves
\* enhance_audio as a RuntimeError
EnhanceRaises(c) == c = "failed"

\* enhance_audio has returned the enhanced audio to process_file (line 328)
\* or raised into its except clause (line 350).
PFModelDone ==
    /\ worker.pc = "model"
    /\ cpc \in {"done", "failed"}
    /\ IF EnhanceRaises(cpc)
       THEN PFFail("chunk", StageError("chunk"))
       ELSE worker' = [worker EXCEPT !.pc = "save"]
    /\ UNCHANGED <<backend, redis, disk, submitted, brokerQueue, poll, response, trail>>
    /\ UNCHANGED <<chunkVars, initVars, fileVars, gainVars, uploadOut, download>>

\* What save_audio can do for a target with another extension than .wav:
\* sf.write raises; the conversion succeeds; it yields an empty file; it raises.
SaveOutcomes == {"write_fail", "converted", "empty", "conv_fail"}

\* save_audio returning the requested path whatever the conversion did
SaveAudioRequested(output_path, o, dsk) ==
    LET wav_path == WavPath(output_path)
    IN  IF o = "converted"
        THEN <<output_path, (dsk \cup {output_path}) \ {wav_path}, {output_path}>>
        ELSE IF o = "empty" /\ PathExt(output_path) # "wav"
        THEN <<output_path, dsk \cup {wav_path, output_path}, {wav_path}>>
        ELSE <<output_path, dsk \cup {wav_path}, {wav_path}>>

\* save_audio lines 268-301: <<path returned, files afterwards, the files left
\* holding the audio>>. The WAV is written first (line 275); a conversion that
\* yields a non-empty target removes it (line 290); an empty target or a
\* failed conversion leaves the WAV as the result.
SaveAudio(output_path, o, dsk) ==
    LET wav_path == IF PathExt(output_path) = "wav" THEN output_path
                    ELSE WavPath(output_path)
    IN  IF PathExt(output_path) = "wav"
        THEN <<wav_path, dsk \cup {wav_path}, {wav_path}>>
        ELSE IF o = "converted"
             THEN <<output_path, (dsk \cup {output_path}) \ {wav_path}, {output_path}>>
        ELSE IF o = "empty"
             THEN <<wav_path, dsk \cup {wav_path, output_path}, {wav_path}>>
        ELSE <<wav_path, dsk \cup {wav_path}, {wav_path}>>

\* process_file line 336
PFSave ==
    /\ worker.pc = "save"
    /\ \E o \in SaveOutcomes :
        IF o = "write_fail"
        THEN PFFail("save", StageError("save")) /\ UNCHANGED <<disk, mtime>>
        ELSE LET r == SaveAudio(worker.output_path, o, disk) IN
             /\ worker' = [worker EXCEPT !.pc = "stat", !.final_output_path = r[1],
                                           !.written = r[3]]
             /\ disk' = r[2]
             /\ mtime' = Written(mtime,
                                 {worker.output_path, WavPath(worker.output_path)},
                                 r[2], now)
    /\ UNCHANGED <<backend, redis, submitted, brokerQueue, poll, response, trail>>
    /\ UNCHANGED <<chunkVars, initVars, now, sweep, fileOp, gainVars, uploadOut, download>>

\* process_file lines 339-348
PFStat ==
    /\ worker.pc = "stat"
    /\ IF worker.final_output_path \in disk
       THEN worker' = [worker EXCEPT !.pc = "returned",
                                     !.result = PFSuccess(worker.final_output_path)]
       ELSE PFFail("stat", StageError("stat"))
    /\ UNCHANGED <<backend, redis, disk, submitted, brokerQueue, poll, response, trail>>
    /\ UNCHANGED <<chunkVars, initVars, fileVars, gainVars, uploadOut, download>>

\* process_audio_task lines 86, 99-107: the task returns iff process_file
\* returned a result with success set; otherwise an exception leaves the task.
TaskSucceeds(w) == ~w.raised /\ w.result.success

\* process_audio_task lines 86-107: return the result dict (Celery stores
\* SUCCESS) or raise (Celery stores FAILURE with the exception); the worker
\* process is then free for the next task.
WorkerFinish ==
    /\ worker.pc = "returned"
    /\ LET t  == worker.task
           pf == IF worker.raised THEN "raised"
                 ELSE IF worker.result.success THEN "success" ELSE "failure"
       IN IF TaskSucceeds(worker)
          THEN Store(t, "SUCCESS", SuccessInfo(worker.result.output_path), pf, <<>>)
          ELSE Store(t, "FAILURE", FailureInfo(worker.result.error), pf, worker.cause)
    /\ worker' = IdleWorker
    /\ UNCHANGED <<redis, disk, submitted, brokerQueue, poll, response>>
    /\ UNCHANGED <<chunkVars, initVars, fileVars, gainVars, uploadOut, download>>

----------------------------------------------------------------------------
(* get_task_status *)

\* str.lower() on the Celery state names
StateLower(state) ==
    CASE state = "PENDING"    -> "pending"
      [] state = "STARTED"    -> "started"
      [] state = "PROCESSING" -> "processing"
      [] state = "PROGRESS"   -> "progress"
      [] state = "SUCCESS"    -> "success"
      [] state = "FAILURE"    -> "failure"

StatusOfLower(state) == StateLower(state)
\* main.py lines 270-286: the status reported for a state
StatusOf(state) ==
    CASE state = "PENDING"    -> "queued"
      [] state = "PROCESSING" -> "processing"
      [] state = "SUCCESS"    -> "completed"
      [] state = "FAILURE"    -> "failed"
      [] OTHER                -> StateLower(state)

\* main.py lines 259, 270-284: the progress reported for a state and the info read
ProgressOf(state, info) ==
    CASE state = "PROCESSING" ->
            IF info.type = "dict" /\ info.progress # Absent THEN info.progress
            ELSE DefaultProgress
      [] state = "SUCCESS"    -> CompletedProgress
      [] OTHER                -> 0

\* main.py lines 260, 276, 280, 284
QueuePositionOf(state, meta) ==
    IF state \in {"PROCESSING", "SUCCESS", "FAILURE"} THEN 0 ELSE meta.queue_position

\* main.py lines 296-305: the result fields are added for a SUCCESS state whose
\* info is a dict naming an existing output file
HasResultFields(state, info, dsk) ==
    state = "SUCCESS" /\ info.type = "dict" /\ Exists(info.output_path, dsk)

\* main.py line 309 alone
ErrorOfGeneric(info) == <<"Task failed">>

\* main.py lines 308-319
ErrorOf(info) ==
    IF info.type = "dict" THEN <<"Unknown error">>
    ELSE IF info.type = "exc" THEN info.msg
    ELSE <<"Task failed">>

\* main.py lines 288-321: the response built from the state and the info read
ResponseOf(t, state, info, meta, dsk) ==
    [task_id |-> t,
     status |-> StatusOf(state),
     progress |-> ProgressOf(state, info),
     queue_position |-> QueuePositionOf(state, meta),
     fields |-> {"task_id", "status", "progress", "queue_position"}
                \cup (IF HasResultFields(state, info, dsk)
                      THEN {"download_ready", "duration_seconds", "output_size_mb",
                            "time_until_deletion_seconds"}
                      ELSE {})
                \cup (IF state = "FAILURE" THEN {"error"} ELSE {}),
     error |-> IF state = "FAILURE" THEN ErrorOf(info) ELSE <<>>]

\* redis_client.get(f"task:{task_id}"): a key stored with setex (main.py lines
\* 191-195) is gone once its time to live has run out.
RedisGet(t) ==
    IF redis[t].present /\ now < redis[t].expires_at THEN redis[t] ELSE NoMeta

\* main.py lines 245-260: the metadata is read from Redis and the state from
\* the result backend (task_result.state).
PollStart(t) ==
    /\ poll.pc = "idle"
    /\ poll' = [pc |-> "info", task |-> t, known |-> t \in submitted,
                meta |-> RedisGet(t), first |-> backend[t],
                prev |-> IF response.task_id = t THEN response.resp.progress ELSE Absent]
    /\ response' = NoResponse
    /\ UNCHANGED <<backend, redis, disk, submitted, brokerQueue, worker, trail>>
    /\ UNCHANGED <<chunkVars, initVars, fileVars, gainVars, uploadOut, download>>

\* main.py line 265: task_result.info is a second read of the result backend,
\* unless the first read found a ready state, whose meta the AsyncResult keeps.
InfoRead(first, latest) == IF first.state \in ReadyStates THEN first.info ELSE latest.info

\* main.py lines 262-321
PollFinish ==
    /\ poll.pc = "info"
    /\ LET t         == poll.task
           state     == poll.first.state
           task_info == InfoRead(poll.first, backend[t])
       IN response' = [resp   |-> ResponseOf(t, state, task_info, poll.meta, disk),
                       first  |-> poll.first,
                       second |-> backend[t],
                       meta   |-> poll.meta,
                       dsk    |-> disk,
                       known  |-> poll.known,
                       task_id |-> t]
    /\ poll' = NoPoll
    /\ UNCHANGED <<backend, redis, disk, submitted, brokerQueue, worker, trail>>
    /\ UNCHANGED <<chunkVars, initVars, fileVars, gainVars, uploadOut, download>>

----------------------------------------------------------------------------
(* download_processed_audio (main.py 328-384) *)

DownloadReadyUnlessPending(state) == state # "PENDING"

\* main.py line 339: only a task in state SUCCESS has a file to download
DownloadReady(state) == state = "SUCCESS"

\* lines 337-357: the state is read, then the output path of the result; a
\* task that is not ready gives 400, a result that is no dict 500, an output
\* path that does not exist 404. Otherwise the FileResponse is built.
DownloadStart(t) ==
    /\ download.pc = "idle"
    /\ LET state     == backend[t].state
           task_info == backend[t].info
           d         == [NoDownload EXCEPT !.task_id = t, !.state = state]
       IN  IF ~DownloadReady(state)
           THEN download' = [d EXCEPT !.status_code = 400]
           ELSE IF task_info.type # "dict"
           THEN download' = [d EXCEPT !.status_code = 500]
           ELSE IF ~Exists(task_info.output_path, disk)
           THEN download' = [d EXCEPT !.output_path = task_info.output_path,
                                      !.status_code = 404]
           ELSE download' = [d EXCEPT !.pc = "send",
                                      !.output_path = task_info.output_path,
                                      !.existed = TRUE]
    /\ UNCHANGED <<chunkVars, initVars, jobVars, fileVars, gainVars, uploadOut>>

\* lines 374-378: the FileResponse sends the file; a path that is no file
\* (any more) when the response is sent raises, and the request ends with 500.
DownloadSend ==
    /\ download.pc = "send"
    /\ IF download.output_path \in disk
       THEN download' = [download EXCEPT !.pc = "idle", !.status_code = 200,
                                         !.file = download.output_path]
       ELSE download' = [download EXCEPT !.pc = "idle", !.status_code = 500]
    /\ UNCHANGED <<chunkVars, initVars, jobVars, fileVars, gainVars, uploadOut>>

----------------------------------------------------------------------------
(* FileCleanupManager (file_cleanup.py) and the delete endpoint *)

\* main.py line 53: directories=[config.UPLOAD_DIR, config.PROCESSED_DIR]
directories == <<"uploads", "processed">>

\* A subdirectory of a managed directory, a file inside it, and a file in a
\* directory the manager was not given.
SubdirPath(directory) == <<directory, "subdir", "dir">>
NestedPath(directory) == <<directory, "subdir", "dir", "f">>
OutsidePath == <<"elsewhere", "f", "wav">>

\* The path names a directory.
IsDirectory(p) == Len(p) = 3 /\ p[3] = "dir"

\* The path is an entry of the directory itself, not of a subdirectory.
IsEntryOf(p, directory) == Len(p) <= 3 /\ p[1] = directory

\* line 29, directory.iterdir(): the entries directly inside a directory.
FilesIn(directory, dsk) == {p \in dsk : IsEntryOf(p, directory)}

is_file_or_dir(file_path, dsk) == file_path \in dsk

\* line 30, file_path.is_file(): false for a directory and for a path that
\* is gone
is_file(file_path, dsk) == file_path \in dsk /\ ~IsDirectory(file_path)

\* The orders in which a listing can give the files of a set.
Orders(S) == {f \in [1..Cardinality(S) -> S] : \A p \in S : \E i \in DOMAIN f : f[i] = p}

\* int(x) for x seconds given in ticks: truncation towards zero
IntSeconds(ticks) ==
    IF ticks >= 0 THEN ticks \div TicksPerSecond ELSE -((-ticks) \div TicksPerSecond)

\* No file, no modification time.
NoTimes == [p \in {} |-> 0]

\* The locals of cleanup_old_files, and as history the files it has deleted,
\* those whose unlink failed and the directories whose scan was given up.
NoSweep == [pc |-> "idle", current_time |-> 0, cutoff_time |-> 0, dirs |-> <<>>,
            listing |-> <<>>, total_deleted |-> 0,
            deleted |-> {}, unlinkFailed |-> {}, scanErrors |-> {}]

\* What a call returned (ok: a boolean result, returned: a number) and, as
\* history, what it found (whether the path existed, its age in ticks, whether
\* the call repeats a delete that had just succeeded) and what it removed.
NoFileOp == [kind |-> "none", path |-> NoPath, task |-> NoTask, ok |-> FALSE,
             returned |-> 0, reported |-> {},
             existed |-> FALSE, age |-> 0, again |-> FALSE,
             deleted |-> {}, unlinkFailed |-> {}, scanErrors |-> {}]

FileIdle ==
    /\ now = 0
    /\ disk = {}
    /\ mtime = NoTimes
    /\ sweep = NoSweep
    /\ fileOp = NoFileOp

\* The clock advances.
Tick ==
    /\ now < MaxNow
    /\ now' = now + 1
    /\ UNCHANGED <<mtime, sweep, fileOp>>
    /\ UNCHANGED <<chunkVars, initVars, jobVars, gainVars, uploadOut, download>>

\* cleanup_old_files lines 19-22
SweepStart ==
    /\ sweep.pc = "idle"
    /\ sweep' = [NoSweep EXCEPT !.pc = "dir",
                                !.current_time = now,
                                !.cutoff_time = now - RetentionTicks,
                                !.dirs = directories]
    /\ UNCHANGED <<now, mtime, fileOp>>
    /\ UNCHANGED <<chunkVars, initVars, jobVars, gainVars, uploadOut, download>>

\* lines 24-29 and 47-50: the next directory is listed (the managed directories
\* are created by config.py and never removed); after the last one the count is
\* returned.
SweepDir ==
    /\ sweep.pc = "dir"
    /\ IF sweep.dirs = <<>>
       THEN /\ fileOp' = [NoFileOp EXCEPT !.kind = "sweep",
                                          !.ok = TRUE,
                                          !.returned = sweep.total_deleted,
                                          !.deleted = {d.path : d \in sweep.deleted},
                                          !.unlinkFailed = sweep.unlinkFailed,
                                          !.scanErrors = sweep.scanErrors]
            /\ sweep' = NoSweep
       ELSE /\ \E order \in Orders(FilesIn(Head(sweep.dirs), disk)) :
                sweep' = [sweep EXCEPT !.pc = "file", !.listing = order]
            /\ UNCHANGED fileOp
    /\ UNCHANGED <<now, mtime>>
    /\ UNCHANGED <<chunkVars, initVars, jobVars, gainVars, uploadOut, download>>

\* lines 29-31: the next listed path; one that is no file (any more) is skipped.
SweepIsFile ==
    /\ sweep.pc = "file"
    /\ IF sweep.listing = <<>>
       THEN sweep' = [sweep EXCEPT !.pc = "dir", !.dirs = Tail(@)]
       ELSE IF is_file(Head(sweep.listing), disk)
            THEN sweep' = [sweep EXCEPT !.pc = "stat"]
            ELSE sweep' = [sweep EXCEPT !.listing = Tail(@)]
    /\ UNCHANGED <<now, mtime, fileOp>>
    /\ UNCHANGED <<chunkVars, initVars, jobVars, gainVars, uploadOut, download>>

IsOldOrEqual(file_mtime, cutoff_time) == file_mtime <= cutoff_time
\* line 36
IsOld(file_mtime, cutoff_time) == file_mtime < cutoff_time

AfterUnlinkFailureAbort(sw, file_path) ==
    [sw EXCEPT !.pc = "dir", !.dirs = Tail(@), !.listing = <<>>,
               !.unlinkFailed = @ \cup {file_path}]
\* lines 41-42: the failure is logged and the loop goes on with the next path
AfterUnlinkFailure(sw, file_path) ==
    [sw EXCEPT !.pc = "file", !.listing = Tail(@),
               !.unlinkFailed = @ \cup {file_path}]

\* lines 34-42: stat, compare, unlink. A stat of a file that is gone raises
\* into the handler of lines 44-45, which gives up the rest of the directory;
\* a failing unlink is logged (lines 41-42) and the loop goes on.
SweepStat ==
    /\ sweep.pc = "stat"
    /\ LET file_path == Head(sweep.listing) IN
       IF file_path \notin disk
       THEN /\ sweep' = [sweep EXCEPT !.pc = "dir", !.dirs = Tail(@), !.listing = <<>>,
                                      !.scanErrors = @ \cup {Head(sweep.dirs)}]
            /\ UNCHANGED <<disk, mtime>>
       ELSE IF IsOld(mtime[file_path], sweep.cutoff_time)
            THEN \E unlink_ok \in BOOLEAN :
                   IF unlink_ok
                   THEN /\ disk' = disk \ {file_path}
                        /\ mtime' = [p \in disk \ {file_path} |-> mtime[p]]
                        /\ sweep' = [sweep EXCEPT !.pc = "file", !.listing = Tail(@),
                                                  !.total_deleted = @ + 1,
                                                  !.deleted = @ \cup
                                                      {[path |-> file_path,
                                                        mtime |-> mtime[file_path]]}]
                   ELSE /\ sweep' = AfterUnlinkFailure(sweep, file_path)
                        /\ UNCHANGED <<disk, mtime>>
            ELSE /\ sweep' = [sweep EXCEPT !.pc = "file", !.listing = Tail(@)]
                 /\ UNCHANGED <<disk, mtime>>
    /\ UNCHANGED <<now, fileOp>>
    /\ UNCHANGED <<chunkVars, initVars, gainVars, uploadOut, download>>
    /\ UNCHANGED <<backend, redis, submitted, brokerQueue, worker, poll, response, trail>>

delete_file_keeps(file_path, unlink_ok, dsk) == <<file_path \in dsk, dsk>>

\* delete_file lines 54-62: <<value returned, files afterwards>>
delete_file(file_path, unlink_ok, dsk) ==
    IF Exists(file_path, dsk) /\ file_path \in dsk
    THEN IF unlink_ok THEN <<TRUE, dsk \ {file_path}>> ELSE <<FALSE, dsk>>
    ELSE <<FALSE, dsk>>

get_file_age_seconds_negated(file_path, dsk, mt, current_time) ==
    IF ~Exists(file_path, dsk) THEN 0 ELSE mt[file_path] - current_time

\* get_file_age_seconds lines 66-70, in ticks
get_file_age_seconds(file_path, dsk, mt, current_time) ==
    IF ~Exists(file_path, dsk) THEN 0 ELSE current_time - mt[file_path]

\* get_time_until_deletion lines 74-76, in seconds
get_time_until_deletion(file_path, dsk, mt, current_time) ==
    LET age       == get_file_age_seconds(file_path, dsk, mt, current_time)
        remaining == RetentionTicks - age
    IN  Max2(0, IntSeconds(remaining))

\* The paths the manager is asked about.
ManagedPaths == {UploadPath("t1"), UploadPath("t2"), ProcessedPath("t1", "wav")}

\* cleanup_manager.delete_file(path)
DeleteFile(p) ==
    /\ \E unlink_ok \in BOOLEAN :
        LET r == delete_file(p, unlink_ok, disk) IN
        /\ disk' = r[2]
        /\ mtime' = [q \in r[2] |-> mtime[q]]
        /\ fileOp' = [NoFileOp EXCEPT !.kind = "delete", !.path = p, !.ok = r[1],
                                      !.existed = p \in disk,
                                      !.age = IF p \in disk THEN now - mtime[p] ELSE 0,
                                      !.again = (fileOp.kind = "delete" /\ fileOp.path = p
                                                 /\ fileOp.ok),
                                      !.deleted = disk \ r[2],
                                      !.unlinkFailed = IF unlink_ok THEN {} ELSE {p} \cap disk]
    /\ UNCHANGED <<now, sweep>>
    /\ UNCHANGED <<chunkVars, initVars, gainVars, uploadOut, download>>
    /\ UNCHANGED <<backend, redis, submitted, brokerQueue, worker, poll, response, trail>>

\* cleanup_manager.get_time_until_deletion(path)
TimeUntilDeletion(p) ==
    /\ fileOp' = [NoFileOp EXCEPT !.kind = "time", !.path = p, !.ok = TRUE,
                                  !.existed = p \in disk,
                                  !.age = IF p \in disk THEN now - mtime[p] ELSE 0,
                                  !.returned = get_time_until_deletion(p, disk, mtime, now)]
    /\ UNCHANGED <<now, mtime, sweep>>
    /\ UNCHANGED <<chunkVars, initVars, jobVars, gainVars, uploadOut, download>>

\* delete_files, main.py lines 395-426: with the task's metadata found, the
\* upload path and the processed path stored at submission are deleted if
\* they exist, then the metadata; every path found is reported as deleted.
DeleteFiles(t) ==
    /\ LET meta == RedisGet(t) IN
       IF meta.present
       THEN \E ok1, ok2 \in BOOLEAN :
              LET r1 == delete_file(meta.upload_path, ok1, disk)
                  r2 == delete_file(meta.processed_path, ok2, r1[2])
              IN /\ disk' = r2[2]
                 /\ mtime' = [q \in r2[2] |-> mtime[q]]
                 /\ redis' = [redis EXCEPT ![t] = NoMeta]
                 /\ fileOp' = [NoFileOp EXCEPT
                        !.kind = "delete_files", !.task = t, !.ok = TRUE,
                        !.reported = {meta.upload_path, meta.processed_path} \cap disk,
                        !.deleted = disk \ r2[2]]
       ELSE /\ fileOp' = [NoFileOp EXCEPT
                        !.kind = "delete_files", !.task = t, !.ok = TRUE]
            /\ UNCHANGED <<disk, mtime, redis>>
    /\ UNCHANGED <<now, sweep>>
    /\ UNCHANGED <<chunkVars, initVars, gainVars, uploadOut, download>>
    /\ UNCHANGED <<backend, submitted, brokerQueue, worker, poll, response, trail>>

----------------------------------------------------------------------------
(* The specifications *)

Init == ChunkIdle /\ InitIdle /\ JobIdle /\ FileIdle /\ GainIdle

Next ==
    \/ \E t \in Tasks, e \in Exts : Upload(t, e)
    \/ WorkerPickup
    \/ WorkerUpdateState
    \/ PFLoad
    \/ PFEnhanceCall
    \/ PFInitStep
    \/ PFInitDone
    \/ PFModel
    \/ PFSave
    \/ PFStat
    \/ WorkerFinish
    \/ \E t \in Tasks : PollStart(t)
    \/ PollFinish

Spec == Init /\ [][Next]_vars

ChunkSpecInit == ChunkInit /\ InitIdle /\ JobIdle /\ FileIdle /\ GainIdle
SpecChunk == ChunkSpecInit /\ [][ChunkNext]_vars

SpecInit == Init /\ [][InitNext]_vars

SpecInitConc == Init /\ [][InitConcNext]_vars

\* The manager with some files in its directories, its operations called one
\* after the other.
FilesInit ==
    /\ ChunkIdle /\ InitIdle /\ JobIdle /\ GainIdle
    /\ now \in 0..MaxNow
    /\ disk \in SUBSET ManagedPaths
    /\ mtime \in [disk -> 0..now]
    /\ sweep = NoSweep
    /\ fileOp = NoFileOp

FilesNext ==
    \/ Tick
    \/ SweepStart
    \/ SweepDir
    \/ SweepIsFile
    \/ SweepStat
    \/ \E p \in ManagedPaths : sweep.pc = "idle" /\ DeleteFile(p)
    \/ \E p \in ManagedPaths : sweep.pc = "idle" /\ TimeUntilDeletion(p)

SpecFiles == FilesInit /\ [][FilesNext]_vars

\* A managed directory holding an upload and a subdirectory with a file of
\* its own, and a file outside the managed directories; the sweep runs as time
\* passes.
TreePaths == {UploadPath("t1"), SubdirPath("uploads"), NestedPath("uploads"), OutsidePath}

TreeInit ==
    /\ ChunkIdle /\ InitIdle /\ JobIdle /\ GainIdle
    /\ now \in 0..MaxNow
    /\ disk \in {S \in SUBSET TreePaths :
                    NestedPath("uploads") \in S => SubdirPath("uploads") \in S}
    /\ mtime \in [disk -> 0..now]
    /\ sweep = NoSweep
    /\ fileOp = NoFileOp

TreeNext ==
    \/ Tick
    \/ SweepStart
    \/ SweepDir
    \/ SweepIsFile
    \/ SweepStat

SpecTree == TreeInit /\ [][TreeNext]_vars

\* The manager's sweep running while files are deleted through its
\* delete_file (the delete endpoint runs in the API process, the sweep in the
\* worker's periodic task).
FilesConcNext ==
    \/ Tick
    \/ SweepStart
    \/ SweepDir
    \/ SweepIsFile
    \/ SweepStat
    \/ \E p \in ManagedPaths : DeleteFile(p)

SpecFilesConc == FilesInit /\ [][FilesConcNext]_vars

\* One job on a worker process that has served a job before, polled and
\* deleted through the endpoints.
RetainInit == ChunkIdle /\ InitWarm /\ JobIdle /\ FileIdle /\ GainIdle

RetainNext ==
    \/ \E e \in Exts : Upload("t1", e)
    \/ WorkerPickup
    \/ WorkerUpdateState
    \/ PFLoad
    \/ PFEnhanceCall
    \/ PFInitDone
    \/ PFModel
    \/ PFSave
    \/ PFStat
    \/ WorkerFinish
    \/ PollStart("t1")
    \/ PollFinish
    \/ DeleteFiles("t1")

SpecRetain == RetainInit /\ [][RetainNext]_vars

\* Jobs waiting in the queue while time passes: submission, pickup, polling
\* and the clock.
QueueNext ==
    \/ \E t \in Tasks, e \in Exts : Upload(t, e)
    \/ WorkerPickup
    \/ WorkerUpdateState
    \/ \E t \in Tasks : PollStart(t)
    \/ PollFinish
    \/ Tick

SpecQueue == Init /\ [][QueueNext]_vars

\* One job on a worker process that has served a job before, its result
\* downloaded and its files deleted through the endpoints.
DownloadNext ==
    \/ \E e \in Exts : Upload("t1", e)
    \/ WorkerPickup
    \/ WorkerUpdateState
    \/ PFLoad
    \/ PFEnhanceCall
    \/ PFInitDone
    \/ PFModel
    \/ PFSave
    \/ PFStat
    \/ WorkerFinish
    \/ \E t \in Tasks : DownloadStart(t)
    \/ DownloadSend
    \/ DeleteFiles("t1")

SpecDownload == RetainInit /\ [][DownloadNext]_vars

\* One job on a worker process that has served a job before, its enhancement
\* followed window by window.
JobChunkNext ==
    \/ Upload("t1", "wav")
    \/ WorkerPickup
    \/ WorkerUpdateState
    \/ PFLoad
    \/ PFEnhanceCall
    \/ PFInitDone
    \/ PFModelStart
    \/ EnhanceChunked
    \/ EnhanceFull
    \/ ChunkStep
    \/ MergeStep
    \/ PFModelDone
    \/ PFSave
    \/ PFStat
    \/ WorkerFinish

SpecJobChunk == RetainInit /\ [][JobChunkNext]_vars

\* A job waiting in the queue while time passes and the periodic sweep runs,
\* up to the worker's load of its input.
ExpireNext ==
    \/ \E e \in Exts : Upload("t1", e)
    \/ Tick
    \/ SweepStart
    \/ SweepDir
    \/ SweepIsFile
    \/ SweepStat
    \/ WorkerPickup
    \/ WorkerUpdateState
    \/ PFLoad

SpecExpire == Init /\ [][ExpireNext]_vars

\* Upload requests of every kind, one after the other.
UploadNext == \E t \in Tasks, req \in Requests : UploadAudio(t, req)

SpecUpload == Init /\ [][UploadNext]_vars

\* The gain stage applied to any model output under any configured gain.
GainSpecInit ==
    /\ ChunkIdle /\ InitIdle /\ JobIdle /\ FileIdle /\ GainInit
SpecGain == GainSpecInit /\ [][GainNext]_vars

\* The normalisation of enhance_audio over every short buffer of samples.
NormSpecInit ==
    /\ ChunkIdle /\ InitIdle /\ JobIdle /\ FileIdle /\ NormInit
SpecNorm == NormSpecInit /\ [][NormNext]_vars

\* The progress value of the status endpoint's test (test_api.py line 203).
ReportedProgress == 50

\* What AsyncResult can report for a task: the states and infos this
\* application's worker stores, and the state PROGRESS with a progress meta
\* that the status endpoint's test feeds it (test_api.py lines 201-204).
Reported ==
    {[state |-> "PENDING", info |-> NoneInfo],
     [state |-> "STARTED", info |-> StartedInfo],
     [state |-> "PROCESSING", info |-> ProcessingMeta],
     [state |-> "PROCESSING", info |-> StartedInfo],
     [state |-> "PROGRESS", info |-> [ProcessingMeta EXCEPT !.progress = ReportedProgress]],
     [state |-> "PROGRESS", info |-> ProcessingMeta],
     [state |-> "SUCCESS", info |-> SuccessInfo(ProcessedPath("t1", "wav"))],
     [state |-> "FAILURE", info |-> FailureInfo(StageError("load"))]}

\* The status endpoint polled over a result backend in any reported state.
StatusInit ==
    /\ ChunkIdle /\ InitIdle /\ FileIdle /\ GainIdle
    /\ uploadOut = NoUpload
    /\ download = NoDownload
    /\ backend \in [Tasks -> Reported]
    /\ redis = [t \in Tasks |-> NoMeta]
    /\ submitted = Tasks
    /\ brokerQueue = <<>>
    /\ worker = IdleWorker
    /\ poll = NoPoll
    /\ response = NoResponse
    /\ trail = [t \in Tasks |-> [states |-> <<backend[t].state>>, pf |-> "none",
                                  cause |-> <<>>, queue_position |-> 0]]

StatusNext ==
    \/ \E t \in Tasks : PollStart(t)
    \/ PollFinish

SpecStatus == StatusInit /\ [][StatusNext]_vars

----------------------------------------------------------------------------
(* Properties *)

IsPrefix(s, t) == Len(s) <= Len(t) /\ \A i \in 1..Len(s) : s[i] = t[i]

\* The statuses a task's record has shown, in order.
StatusTrail(t) == [i \in 1..Len(trail[t].states) |-> StatusOf(trail[t].states[i])]

JobPaths == {<<"queued", "processing", "completed">>, <<"queued", "processing", "failed">>}

PFStages == {"load", "enhance", "init", "model", "save", "stat", "returned"}

\* C1: every job's record only moves queued -> processing -> completed or
\* queued -> processing -> failed; the record says processing while the
\* worker is inside process_file; it is completed only if process_file
\* returned success and failed only if it returned failure or raised; a
\* completed or failed record is never written again.
C1_JobRecordTransitions ==
    \A t \in Tasks :
        /\ \E p \in JobPaths : IsPrefix(StatusTrail(t), p)
        /\ (worker.task = t /\ worker.pc \in PFStages) => backend[t].state = "PROCESSING"
        /\ backend[t].state = "SUCCESS" => trail[t].pf = "success"
        /\ backend[t].state = "FAILURE" => trail[t].pf \in {"failure", "raised"}

\* C2: the status a poll returns is one of queued, processing, completed, failed.
C2_StatusInFourValues ==
    response.task_id # NoTask =>
        response.resp.status \in {"queued", "processing", "completed", "failed"}

\* The response a poll would give from one single record of the backend.
Snapshot(r, rec) == ResponseOf(r.task_id, rec.state, rec.info, r.meta, r.dsk)

\* C3: the response of a poll is the snapshot of one single state of the
\* record: the one the backend held at the poll's first read or the one it
\* held at its second read.
C3_PollSnapshotUntorn ==
    response.task_id # NoTask =>
        response.resp \in {Snapshot(response, response.first),
                           Snapshot(response, response.second)}

\* C4: whenever chunking is used (N > C) with a configured overlap O > 0, the
\* merged output has exactly N samples.
C4_MergedLengthIsN ==
    (cpc = "done" /\ UseChunks(total_len, max_chunk_samples) /\ chunk_overlap_samples > 0)
        => Len(enhanced) = total_len

\* C5: for N > C >= 1 the windows handed to the model satisfy start_0 = 0,
\* end_i = min(start_i + C, N), start_(i+1) = end_i - O' with
\* O' = min(O, floor(C/4)); the last window is the first one with end_i = N;
\* consecutive windows share exactly O' samples and every position of [0, N)
\* lies in a window.
C5_PlannedWindows ==
    UseChunks(total_len, max_chunk_samples) =>
        LET N  == total_len
            C  == max_chunk_samples
            O1 == IF chunk_overlap_samples <= C \div 4 THEN chunk_overlap_samples
                  ELSE C \div 4
            k  == Len(windows)
        IN /\ k >= 1 => windows[1][1] = 0
           /\ \A i \in 1..k :
                windows[i][2] = (IF windows[i][1] + C <= N THEN windows[i][1] + C ELSE N)
           /\ \A i \in 1..(k - 1) :
                /\ windows[i][2] < N
                /\ windows[i + 1][1] = windows[i][2] - O1
                /\ windows[i + 1][2] > windows[i][2]
           /\ cpc \in {"merge", "done"} =>
                /\ k >= 1 /\ windows[k][2] = N
                /\ \A q \in 0..(N - 1) :
                     \E i \in 1..k : windows[i][1] <= q /\ q < windows[i][2]

\* C5 witness: a finished plan of three or more windows whose overlap was clamped.
C5_Witness ==
    /\ cpc = "merge"
    /\ Len(windows) >= 3
    /\ overlap >= 1
    /\ chunk_overlap_samples > overlap

C7_RetryPolicy ==
    \A t \in Callers :
        LET c == call[t] IN
        /\ c.loads <= 3
        /\ Len(c.fails) <= 3
        /\ c.waits = SubSeq(<<1, 2, 4>>, 1, Len(c.fails))
        /\ c.pc = "attempt" => c.loads < 3
        /\ (c.loads = Len(c.fails) /\ Len(c.fails) \in 1..2) => c.pc = "attempt"
        /\ c.raised <= 1
        /\ c.outcome = "error" => (c.raised = 1 /\ Len(c.fails) = 3 /\ c.loads = 3)
        /\ (Len(c.fails) = 3 /\ c.pc = "idle") => (c.outcome = "error" /\ c.raised = 1)

\* C7 witness: a call that failed by an exception and by SystemExit has
\* raised after its third attempt.
C7_Witness ==
    \E t \in Callers :
        call[t].outcome = "error" /\ call[t].fails = <<"raise", "exit", "exit">>

\* Nothing is loaded before the first call.
C8_Lazy ==
    (\A t \in Callers : calls[t] = 0) =>
        (~initialized /\ model = 0 /\ df_state = 0 /\ loaderCalls = 0)

\* A call begun with the model loaded returns without having invoked the loader.
C8_NoReload ==
    \A t \in Callers :
        call[t].sawInit => (call[t].loads = 0 /\ call[t].outcome = "ok")

\* C8: initialization is lazy and idempotent: the loader is not invoked
\* before the first initialize/enhance_audio call, and a call made once an
\* initialization has succeeded invokes the loader zero times and leaves the
\* model and state handles unchanged.
C8_LazyIdempotent ==
    /\ []C8_Lazy
    /\ []C8_NoReload
    /\ [][\A t \in Callers :
            (call'[t] # call[t] /\ call'[t].sawInit) =>
                /\ initialized'
                /\ model' = model
                /\ df_state' = df_state
                /\ loaderCalls' = loaderCalls]_vars

\* C8 witness: a call made with the model already loaded has returned.
C8_Witness ==
    \E t \in Callers :
        call[t].sawInit /\ call[t].kind = "initialize" /\ call[t].outcome = "ok"

\* C9: when several callers make their first enhancement call concurrently,
\* the loader is invoked at most 3 times in total and succeeds at most once.
C9_OneAttemptSequence ==
    (\A t \in Callers : calls[t] <= 1 /\ call[t].kind \in {"none", "enhance_audio"})
        => (loaderCalls <= 3 /\ loaderSuccesses <= 1)

ResultFields == {"duration_seconds", "sample_rate", "output_size_bytes", "output_path"}

\* C10: process_file never raises; when a stage failed it returns success =
\* false with an error string and none of the result fields; a result with
\* success = true carries all of them.
C10_ProcessFileResult ==
    /\ ~worker.raised
    /\ worker.pc = "returned" =>
        LET r == worker.result IN
        /\ worker.failed # "none" => ~r.success
        /\ ~r.success => /\ worker.failed # "none"
                         /\ "error" \in r.fields
                         /\ r.error # <<>>
                         /\ r.fields \cap ResultFields = {}
        /\ r.success => ResultFields \subseteq r.fields

\* C10 witness: process_file has returned after its save stage failed.
C10_Witness == worker.pc = "returned" /\ worker.failed = "save"

\* The job whose SUCCESS is stored by this step, if any.
Completing(t) == backend[t].state # "SUCCESS" /\ backend'[t].state = "SUCCESS"

C12_ProgressByStatus ==
    response # NoResponse =>
        LET r == response.resp IN
        /\ r.status = "queued" => r.progress = 0
        /\ r.status = "processing" => r.progress = ProcessingProgress
        /\ r.status = "completed" => r.progress = CompletedProgress

Contains(msg, part) ==
    \E i \in 0..(Len(msg) - Len(part)) : SubSeq(msg, i + 1, i + Len(part)) = part

\* C14: a poll response has an error field iff its status is failed, and for
\* a job that failed because a stage of the pipeline raised, the error text
\* contains the message of the stage's error unchanged and nothing of a stack
\* trace.
C14_ErrorIffFailed ==
    response # NoResponse =>
        LET r == response.resp
            t == response.task_id
        IN /\ "error" \in r.fields <=> r.status = "failed"
           /\ r.status # "failed" => r.error = <<>>
           /\ (r.status = "failed" /\ trail[t].cause # <<>>) =>
                /\ Contains(r.error, trail[t].cause)
                /\ \A i \in 1..Len(r.error) : r.error[i] # "Traceback"

\* C14 witness: the poll of a job whose enhancement raised in the merge; the
\* error text is the wrapped message.
C14_Witness ==
    /\ response # NoResponse
    /\ response.resp.status = "failed"
    /\ trail[response.task_id].cause = StageError("merge")
    /\ response.resp.error = <<"Failed to enhance audio: ">> \o StageError("merge")

\* main.py lines 302-303: the result fields of a response
PollResultFields == {"duration_seconds", "output_size_mb"}

\* C15: a poll response carries the result fields (duration, output size)
\* iff its status is completed, whenever the poll is made, also after the
\* output file has been deleted.
C15_ResultFieldsIffCompleted ==
    response # NoResponse =>
        LET r == response.resp IN
        /\ r.status = "completed" => PollResultFields \subseteq r.fields
        /\ r.status # "completed" => PollResultFields \cap r.fields = {}

\* C16: every poll of a submitted job that reports it queued reports the
\* queue position computed at its submission (active plus reserved tasks at
\* that moment), whatever has happened to the queue since and however long the
\* job has waited.
C16_QueuePositionFrozen ==
    (response # NoResponse /\ response.known /\ response.resp.status = "queued") =>
        response.resp.queue_position = trail[response.task_id].queue_position

\* The directory a path lies in.
DirOf(p) == p[1]

\* The age of a file last modified at file_mtime strictly exceeds the
\* retention window at time t.
Expired(file_mtime, t) == t - file_mtime > RetentionTicks

\* The sweep has examined every directory and is about to return.
SweepDone == sweep.pc = "dir" /\ sweep.dirs = <<>>

\* C17: a sweep deletes a file of a managed directory iff its age strictly
\* exceeds the retention window at the time of the sweep (a file whose unlink
\* raises is the case of C18), and returns the number of files it deleted: age
\* retention + 1 is deleted, age retention and age retention - 1 are kept.
C17_SweepDeletesExpired ==
    /\ [](sweep.pc # "idle" =>
            /\ \A d \in sweep.deleted :
                 Expired(d.mtime, sweep.current_time) /\ d.path \notin disk
            /\ sweep.total_deleted = Cardinality(sweep.deleted)
            /\ SweepDone =>
                 \A p \in disk :
                    (p \notin sweep.unlinkFailed /\ DirOf(p) \notin sweep.scanErrors)
                        => ~Expired(mtime[p], sweep.current_time))
    /\ [](fileOp.kind = "sweep" =>
            /\ fileOp.ok
            /\ fileOp.returned = Cardinality(fileOp.deleted))
    /\ [][sweep.pc # "idle" =>
            /\ disk' \subseteq disk
            /\ disk \ disk' \subseteq {d.path : d \in sweep'.deleted}
            /\ (SweepDone /\ sweep' # sweep) => (fileOp'.kind = "sweep"
                             /\ fileOp'.returned = sweep.total_deleted
                             /\ fileOp'.deleted = {d.path : d \in sweep.deleted})]_vars

\* C17 witness: a sweep about to return 1, having deleted a file one tick
\* older than the retention window and kept one a tick younger and one exactly
\* as old as the window.
C17_Witness ==
    /\ SweepDone
    /\ sweep.total_deleted = 1
    /\ \E d \in sweep.deleted : sweep.current_time - d.mtime = RetentionTicks + 1
    /\ \E p \in disk : sweep.current_time - mtime[p] = RetentionTicks - 1
    /\ \E p \in disk : sweep.current_time - mtime[p] = RetentionTicks
    /\ sweep.unlinkFailed = {}

\* C18: when the unlink of an expired file fails, the sweep goes on: every
\* other expired file of that directory and of the other directories is
\* deleted, the file that could not be deleted is not counted, and the sweep
\* returns its count.
C18_SweepSurvivesUnlinkFailure ==
    /\ (sweep.pc # "idle" /\ sweep.unlinkFailed # {}) =>
            /\ ENABLED (SweepDir \/ SweepIsFile \/ SweepStat)
            /\ sweep.unlinkFailed \cap {d.path : d \in sweep.deleted} = {}
            /\ sweep.total_deleted = Cardinality(sweep.deleted)
            /\ sweep.unlinkFailed \subseteq disk
            /\ SweepDone =>
                 \A p \in disk \ sweep.unlinkFailed :
                    DirOf(p) \notin sweep.scanErrors
                        => ~Expired(mtime[p], sweep.current_time)
    /\ (fileOp.kind = "sweep" /\ fileOp.unlinkFailed # {}) =>
            /\ fileOp.ok
            /\ fileOp.returned = Cardinality(fileOp.deleted)
            /\ fileOp.deleted \cap fileOp.unlinkFailed = {}

\* C18 witness: a sweep has returned 2 after the unlink of one expired upload
\* failed: the other expired upload and the expired processed file are gone.
C18_Witness ==
    /\ fileOp.kind = "sweep"
    /\ Cardinality(fileOp.unlinkFailed) = 1
    /\ fileOp.returned = 2
    /\ \E p \in fileOp.unlinkFailed : DirOf(p) = "uploads" /\ p \in disk
    /\ \E p \in fileOp.deleted : DirOf(p) = "uploads"
    /\ \E p \in fileOp.deleted : DirOf(p) = "processed"

\* C19: time_until_deletion returns max(0, retention - age), in whole
\* seconds, for an existing file (the full window for a fresh file, 0 for an
\* expired one) and 0 for a path that does not exist.
C19_TimeUntilDeletion ==
    fileOp.kind = "time" =>
        /\ fileOp.returned >= 0
        /\ fileOp.existed =>
             fileOp.returned = Max2(0, IntSeconds(RetentionTicks - fileOp.age))
        /\ ~fileOp.existed => fileOp.returned = 0

\* C20: delete_file removes an existing file at once, whatever its age, and
\* returns True (unless the unlink itself raises); for a path that is gone it
\* raises nothing, changes nothing and returns False, so a delete repeated
\* after a delete leaves the state of the first.
C20_DeleteIdempotent ==
    /\ [](fileOp.kind = "delete" =>
            /\ (fileOp.existed /\ fileOp.unlinkFailed = {}) =>
                    (fileOp.ok /\ fileOp.deleted = {fileOp.path})
            /\ ~fileOp.existed => (~fileOp.ok /\ fileOp.deleted = {})
            /\ fileOp.ok <=> fileOp.deleted = {fileOp.path}
            /\ fileOp.again => (~fileOp.existed /\ ~fileOp.ok))
    /\ [][(fileOp' # fileOp /\ fileOp'.kind = "delete") =>
            /\ disk' = disk \ fileOp'.deleted
            /\ fileOp'.path \notin disk => (disk' = disk /\ mtime' = mtime)
            /\ fileOp'.ok => fileOp'.path \notin disk'
            /\ \A p \in disk' : mtime'[p] = mtime[p]]_vars

\* C20 witness: a file of age 0 was deleted and the delete was repeated.
C20_Witness ==
    /\ fileOp.kind = "delete"
    /\ fileOp.again
    /\ ~fileOp.ok
    /\ fileOp.path \notin disk

\* C21: when a delete request for a task returns, having found the task and
\* with no unlink raising, neither the task's uploaded file nor the output
\* file its job wrote is on disk, whichever file save_audio left.
C21_DeleteRemovesBoth ==
    [][\A t \in Tasks :
        (/\ fileOp' # fileOp
         /\ fileOp'.kind = "delete_files" /\ fileOp'.task = t
         /\ RedisGet(t).present
         /\ fileOp'.deleted = fileOp'.reported)
        => /\ UploadPath(t) \notin disk'
           /\ backend[t].state = "SUCCESS" => backend[t].info.output_path \notin disk']_vars

\* C23: an input of N = 3*C samples with a configured overlap O that line 168
\* leaves as it is (1 <= O <= C/4, as 2,400 is for C = 1,440,000) is planned
\* as exactly 3 windows, each of C samples, consecutive ones sharing O samples.
C23_ThreeWindows ==
    (/\ cpc \in {"merge", "done"}
     /\ max_chunk_samples >= 1
     /\ total_len = 3 * max_chunk_samples
     /\ chunk_overlap_samples >= 1
     /\ 4 * chunk_overlap_samples <= max_chunk_samples)
    => /\ Len(windows) = 3
       /\ \A i \in 1..Len(windows) : windows[i][2] - windows[i][1] = max_chunk_samples
       /\ \A i \in 1..(Len(windows) - 1) :
            windows[i][2] - windows[i + 1][1] = chunk_overlap_samples

\* C23 as the code has it: such an input is planned as 4 windows, three of C
\* samples and a last one of 3*O samples that ends at N, consecutive ones
\* sharing O samples.
C23_FourWindows ==
    (/\ cpc \in {"merge", "done"}
     /\ max_chunk_samples >= 1
     /\ total_len = 3 * max_chunk_samples
     /\ chunk_overlap_samples >= 1
     /\ 4 * chunk_overlap_samples <= max_chunk_samples)
    => /\ Len(windows) = 4
       /\ \A i \in 1..3 : windows[i][2] - windows[i][1] = max_chunk_samples
       /\ windows[4][2] - windows[4][1] = 3 * chunk_overlap_samples
       /\ windows[4][2] = total_len
       /\ \A i \in 1..3 : windows[i][2] - windows[i + 1][1] = chunk_overlap_samples

\* C23 witness: an input of 3*C samples planned with an overlap the planner
\* keeps.
C23_Witness ==
    /\ cpc = "merge"
    /\ total_len = 3 * max_chunk_samples
    /\ chunk_overlap_samples >= 1
    /\ overlap = chunk_overlap_samples
    /\ Len(windows) = 4

\* The windows that contain input position q (0-based).
WindowsOf(q) == {i \in 1..Len(windows) : windows[i][1] <= q /\ q < windows[i][2]}

\* C24: with overlap 0 the result of planning, enhancing and merging has
\* exactly N samples, and its sample k is the model's output for position k
\* of the one window that contains k: the chunks are concatenated in window
\* order.
C24_ZeroOverlapConcat ==
    (cpc = "done" /\ chunk_overlap_samples = 0) =>
        /\ Len(enhanced) = total_len
        /\ \A k \in 1..Len(enhanced) :
             /\ Cardinality(WindowsOf(k - 1)) = 1
             /\ \A i \in WindowsOf(k - 1) : enhanced[k] = Sample(i, k - 1)

\* C24 witness: three chunks merged with overlap 0.
C24_Witness ==
    /\ cpc = "done"
    /\ chunk_overlap_samples = 0
    /\ Len(enhanced_chunks) >= 3
    /\ Len(enhanced) = total_len

\* C28: for N >= 1, C >= 1 and every configured overlap O >= 0, O >= C
\* included, every window starts strictly after the one before it, so the
\* loop makes at most N model invocations.
C28_ForwardProgress ==
    /\ [](max_chunk_samples >= 1 =>
            /\ Len(windows) <= total_len
            /\ \A i \in 1..(Len(windows) - 1) : windows[i + 1][1] > windows[i][1])
    /\ [][(cpc = "loop" /\ cpc' = "loop") => start' > start]_vars

\* C28 witness: a finished loop of three or more windows with O >= C.
C28_Witness ==
    /\ cpc = "merge"
    /\ chunk_overlap_samples >= max_chunk_samples
    /\ Len(windows) >= 3

\* A sample of the result was produced by a crossfade.
IsBlend(x) == Len(x) = 4

\* C29: with the chunk length disabled or N <= C the model is invoked once,
\* on the whole buffer [0, N), and its output is returned without merging or
\* crossfading; several windows are planned only when N > C.
C29_SingleWindow ==
    /\ (max_chunk_samples = 0 \/ total_len <= max_chunk_samples) =>
            /\ cpc \notin {"loop", "merge"}
            /\ enhanced_chunks = <<>>
            /\ cpc \in {"done", "failed"} => windows = << <<0, total_len>> >>
            /\ cpc = "done" =>
                 /\ enhanced = [k \in 1..total_len |-> Sample(1, k - 1)]
                 /\ \A k \in 1..Len(enhanced) : ~IsBlend(enhanced[k])
    /\ (cpc \in {"loop", "merge"} \/ enhanced_chunks # <<>> \/ Len(windows) >= 2) =>
            (max_chunk_samples >= 1 /\ total_len > max_chunk_samples)

\* C29 witness: an input exactly as long as the chunk length went through
\* the model in one piece.
C29_Witness ==
    /\ cpc = "done"
    /\ max_chunk_samples >= 1
    /\ total_len = max_chunk_samples
    /\ windows = << <<0, total_len>> >>

\* The number of samples of the result blended at the boundary between chunk
\* i and chunk i + 1: the crossfaded samples whose incoming part is of chunk
\* i + 1.
Blended(i) ==
    Cardinality({k \in 1..Len(enhanced) : IsBlend(enhanced[k]) /\ enhanced[k][2][1] = i + 1})

\* C30: the merger blends, at the boundary between chunk i and chunk i + 1,
\* min(O, half the length of the shorter of these two chunks) samples.
C30_BlendPerBoundary ==
    (cpc = "done" /\ Len(enhanced_chunks) >= 2 /\ overlap > 0) =>
        \A i \in 1..(Len(enhanced_chunks) - 1) :
            Blended(i) = Min2(overlap,
                              Min2(Len(enhanced_chunks[i]), Len(enhanced_chunks[i + 1])) \div 2)

\* C25: a poll of a task that the queue reports in state PROGRESS with
\* info {progress: 50} returns status processing and progress 50.
C25_ProgressState ==
    (/\ response.task_id # NoTask
     /\ response.first.state = "PROGRESS"
     /\ response.first.info.type = "dict"
     /\ response.first.info.progress = ReportedProgress)
    => /\ response.resp.status = "processing"
       /\ response.resp.progress = ReportedProgress

\* C22: for every non-negative output gain, 0 dB included, and every model
\* output, no sample that the pipeline returns after the gain stage has an
\* absolute value above 1.0.
C22_GainNeverExceedsOne ==
    (gpc = "returned" /\ GainDb(override_gain_db, instance_gain_db) >= 0) =>
        \A k \in 1..Len(gain_out) :
            gain_out[k] <= FullScale /\ gain_out[k] >= 0 - FullScale

\* The upload request last made passes every validation step.
RequestValid(req) ==
    /\ req.ext \in {"wav", "mp3"}
    /\ req.file_size <= MAX_FILE_SIZE_BYTES
    /\ req.mime_ok
    /\ req.is_clean

\* The options of the last upload are those handed to its job.
OptionsPassed ==
    \E i \in 1..Len(brokerQueue) :
        /\ brokerQueue[i].task_id = uploadOut.task_id
        /\ brokerQueue[i].options = uploadOut.proc_options

\* C26 as claimed: for a submitted noise_strength s the job gets
\* attenuation_limit_db = 6 + 2*clamp(s, 0, 10) and output_gain_db =
\* max(0, 2.0 - 0.1*clamp(s, 0, 10)), in [6, 26] and [1.0, 2.0] (s = 5 gives
\* 16 and 1.5); without a noise_strength no overrides are passed.
C26_OptionsExact ==
    uploadOut.status_code = 200 =>
        LET ns == uploadOut.request.noise_strength
            o  == uploadOut.proc_options
        IN /\ OptionsPassed
           /\ ns = <<>> => DOMAIN o = {}
           /\ ns # <<>> =>
                LET c == IF ns[1] < 0 THEN 0 ELSE IF ns[1] > 1000 THEN 1000 ELSE ns[1]
                IN /\ DOMAIN o = {"attenuation_limit_db", "output_gain_db"}
                   /\ o["attenuation_limit_db"] = 600 + 2 * c
                   /\ 10 * o["output_gain_db"] = 2000 - c
                   /\ o["attenuation_limit_db"] \in 600..2600
                   /\ o["output_gain_db"] \in 100..200
                   /\ ns[1] = 500 =>
                        (o["attenuation_limit_db"] = 1600 /\ o["output_gain_db"] = 150)

\* C26 as the code has it: the gain is max(0, 2.0 - 0.1*clamp(s, 0, 10))
\* rounded to two decimals; the rest is as claimed.
C26_OptionsRounded ==
    uploadOut.status_code = 200 =>
        LET ns == uploadOut.request.noise_strength
            o  == uploadOut.proc_options
        IN /\ OptionsPassed
           /\ ns = <<>> => DOMAIN o = {}
           /\ ns # <<>> =>
                LET c == IF ns[1] < 0 THEN 0 ELSE IF ns[1] > 1000 THEN 1000 ELSE ns[1]
                IN /\ DOMAIN o = {"attenuation_limit_db", "output_gain_db"}
                   /\ o["attenuation_limit_db"] = 600 + 2 * c
                   /\ 10 * o["output_gain_db"] - (2000 - c) \in (0 - 5)..5
                   /\ o["attenuation_limit_db"] \in 600..2600
                   /\ o["output_gain_db"] \in 100..200
                   /\ ns[1] = 500 =>
                        (o["attenuation_limit_db"] = 1600 /\ o["output_gain_db"] = 150)

\* C26 witness: an upload with noise_strength 12 was accepted and its job got
\* the options of the clamped value 10: 26 dB and 1.0 dB.
C26_Witness ==
    /\ uploadOut.status_code = 200
    /\ uploadOut.request.noise_strength = <<1200>>
    /\ OptionsPassed
    /\ uploadOut.proc_options["attenuation_limit_db"] = 2600
    /\ uploadOut.proc_options["output_gain_db"] = 100

\* C27: an upload is answered with 400 exactly when a validation step
\* refuses it (extension, size above the maximum, MIME type, virus scan); a
\* refused upload submits no job, stores no metadata and leaves no file, and
\* a file of exactly the maximum size is accepted.
C27_RejectedUpload ==
    /\ [](uploadOut.seq > 0 =>
            /\ uploadOut.status_code \in {200, 400}
            /\ uploadOut.status_code = 400 <=> ~RequestValid(uploadOut.request)
            /\ uploadOut.status_code = 400 => uploadOut.task_id = NoTask)
    /\ [][(uploadOut'.seq # uploadOut.seq /\ uploadOut'.status_code = 400) =>
            /\ submitted' = submitted
            /\ brokerQueue' = brokerQueue
            /\ redis' = redis
            /\ backend' = backend
            /\ disk' = disk
            /\ \A t \in Tasks : t \notin submitted => UploadPath(t) \notin disk']_vars

\* C27 witness: after an accepted upload of exactly the maximum size, an
\* upload whose MIME type is refused was answered with 400.
C27_Witness ==
    /\ uploadOut.seq = 2
    /\ uploadOut.status_code = 400
    /\ uploadOut.request.ext = "mp3"
    /\ uploadOut.request.file_size = MAX_FILE_SIZE_BYTES
    /\ ~uploadOut.request.mime_ok
    /\ \E i \in 1..Len(brokerQueue) : brokerQueue[i].task_id = "t1"
    /\ disk = {UploadPath("t1")}

----------------------------------------------------------------------------
(* The sweep and the time until deletion *)

\* C39: the sweep and get_time_until_deletion agree. When the time until
\* deletion of a file has been asked for and a sweep taken at that same
\* instant deletes that file, the time returned was 0; so a file for which a
\* positive time is returned is not deleted by a sweep at that instant.
C39_SweepAgreesWithTimeUntilDeletion ==
    (fileOp.kind = "time" /\ fileOp.existed)
        => \A d \in sweep.deleted :
             (d.path = fileOp.path /\ sweep.current_time = d.mtime + fileOp.age)
                 => fileOp.returned = 0

\* The time of a file was asked for and a sweep at the same instant has
\* deleted the file.
C39_Witness ==
    /\ fileOp.kind = "time" /\ fileOp.existed /\ fileOp.returned = 0
    /\ \E d \in sweep.deleted :
         d.path = fileOp.path /\ sweep.current_time = d.mtime + fileOp.age

----------------------------------------------------------------------------
(* A file vanishing under the sweep *)

\* C37: if a file disappears while a sweep is scanning its directory, the
\* sweep still examines every other file of that directory: when the sweep
\* has examined its directories, no expired file is left but those whose
\* unlink failed.
C37_SweepSurvivesVanishedFile ==
    SweepDone =>
        \A p \in disk \ sweep.unlinkFailed : ~Expired(mtime[p], sweep.current_time)

----------------------------------------------------------------------------
(* What the sweep leaves alone *)

\* The path lies below a subdirectory of a managed directory.
IsNested(p) == Len(p) > 3

\* The path lies in one of the directories the manager was given.
IsManaged(p) == \E i \in DOMAIN directories : p[1] = directories[i]

\* C33: a sweep leaves unchanged every subdirectory of a managed directory
\* and every file inside it, every file whose age does not exceed the
\* retention window at the time of the sweep, and everything outside the
\* managed directories.
C33_SweepFrame ==
    [][sweep.pc # "idle" =>
         \A p \in disk :
            (\/ IsDirectory(p)
             \/ IsNested(p)
             \/ ~IsManaged(p)
             \/ ~Expired(mtime[p], sweep.current_time))
                => (p \in disk' /\ mtime'[p] = mtime[p])]_vars

\* A sweep is about to return 1: it has deleted the expired upload, and the
\* subdirectory, the file inside it and the file outside the managed
\* directories, all older than the window, are still there.
C33_Witness ==
    /\ SweepDone
    /\ sweep.total_deleted = 1
    /\ \A p \in {SubdirPath("uploads"), NestedPath("uploads"), OutsidePath} :
          p \in disk /\ Expired(mtime[p], sweep.current_time)

----------------------------------------------------------------------------
(* The sweep and the jobs that have not run yet *)

\* C36: the sweep never deletes the uploaded input of a job that is still
\* queued or processing: the input of every job in the queue exists, and the
\* input of the job a worker has picked up exists when process_file loads it.
C36_InputSurvivesQueue ==
    /\ \A i \in DOMAIN brokerQueue : brokerQueue[i].input_path \in disk
    /\ worker.pc \in {"started", "load"} => worker.input_path \in disk

----------------------------------------------------------------------------
(* The progress reported by successive polls *)

\* C38: over any sequence of polls of the same job the reported progress
\* never decreases, whichever terminal state the job reaches: a poll that
\* follows a poll of the same job reports at least the progress that one
\* reported.
C38_ProgressMonotone ==
    [][(poll.pc = "info" /\ poll' = NoPoll /\ poll.prev # Absent)
          => response'.resp.progress >= poll.prev]_vars

----------------------------------------------------------------------------
(* The download endpoint *)

\* C35: the download endpoint returns a file only when the job is completed
\* and the recorded output path exists, and the file is the one recorded; a
\* job in any other state gets 400, and a completed job whose output is gone
\* gets 404.
C35_DownloadOnlyCompleted ==
    /\ [](download.status_code # 0 =>
            /\ download.status_code = 200 =>
                 (download.state = "SUCCESS" /\ download.existed
                  /\ download.file = download.output_path)
            /\ download.state # "SUCCESS" => download.status_code = 400
            /\ (download.state = "SUCCESS" /\ download.pc = "idle" /\ ~download.existed)
                   => download.status_code = 404)
    /\ [][(download' # download /\ download'.status_code = 200) =>
            /\ download'.file \in disk
            /\ backend[download'.task_id].state = "SUCCESS"
            /\ backend[download'.task_id].info.output_path = download'.file]_vars

\* The output of a completed job has been downloaded.
C35_Witness ==
    /\ download.status_code = 200
    /\ download.task_id = "t1"
    /\ download.file \in disk
    /\ backend["t1"].state = "SUCCESS"

----------------------------------------------------------------------------
(* The normalisation before the model *)

\* C34: before the model is invoked, audio whose peak absolute amplitude
\* exceeds 1.0 is scaled down so that its peak is exactly 1.0 and every sample
\* lies in [-1, 1], each sample keeping its sign; audio whose peak is at most
\* 1.0 is passed on unchanged.
C34_NormalizedPeak ==
    gpc = "model" =>
        /\ Len(audio_out) = Len(audio_in)
        /\ IF \E k \in 1..Len(audio_in) : Abs(audio_in[k]) > FullScale
           THEN \A k \in 1..Len(audio_in) :
                   /\ Abs(audio_out[k]) <= FullScale
                   /\ audio_in[k] * audio_out[k] >= 0
                   /\ (\A j \in 1..Len(audio_in) : Abs(audio_in[j]) <= Abs(audio_in[k]))
                         => Abs(audio_out[k]) = FullScale
           ELSE audio_out = audio_in

\* A buffer whose negative sample is the peak, above 1.0, has been
\* normalised: that sample is now -1.0.
C34_Witness ==
    /\ gpc = "model"
    /\ \E k \in 1..Len(audio_in) : audio_in[k] < 0 - FullScale /\ audio_out[k] = 0 - FullScale
    /\ \E k \in 1..Len(audio_in) : audio_in[k] > 0 /\ audio_in[k] < FullScale

----------------------------------------------------------------------------
(* What the merge keeps of the chunks *)

\* line 254, fade_in = np.linspace(0, 1, fade_len): the weight of the new
\* chunk at place j of the fade, as <<numerator, denominator>>;
\* np.linspace(0, 1, 1) is [0.]
FadeInWeight(j, fade_len) == IF fade_len = 1 THEN <<0, 1>> ELSE <<j, fade_len - 1>>

\* C31: in the merged output every sample outside a blend region is the
\* model's output for that same input position, taken unmodified from a chunk
\* whose window holds the position, the output has one sample per input
\* position (nothing dropped, duplicated or shifted), the first chunk is
\* copied verbatim up to the first blend region, and inside a blend region the
\* new chunk's weight is 0 at the first blended sample and 1 at the last.
C31_MergeFidelity ==
    (cpc = "done" /\ Len(enhanced_chunks) >= 2) =>
        /\ Len(enhanced) = total_len
        /\ \A k \in 1..Len(enhanced) :
             IF IsBlend(enhanced[k])
             THEN LET j        == enhanced[k][3]
                      fade_len == enhanced[k][4]
                      w        == FadeInWeight(j, fade_len)
                  IN  /\ j = 0 => w[1] = 0
                      /\ j = fade_len - 1 => w[1] = w[2]
             ELSE /\ \E i \in WindowsOf(k - 1) : enhanced[k] = Sample(i, k - 1)
                  /\ k <= Len(enhanced_chunks[1]) => enhanced[k] = enhanced_chunks[1][k]

----------------------------------------------------------------------------
(* The model invocations of a chunked enhancement *)

\* The model invocation for a window has failed.
ModelFailed == cpc = "failed"

\* C32: in a chunked enhancement the model is invoked once per planned
\* window, in strictly increasing window order, each window starting where
\* the plan puts it; if the invocation for window i fails, no window is
\* invoked after it (window i included), nothing is merged or saved, and the
\* job ends failed.
C32_InvocationOrder ==
    /\ [](/\ \A i \in 1..Len(windows) : \A j \in 1..Len(windows) :
                i < j => (windows[i][1] < windows[j][1] /\ windows[i][2] < windows[j][2])
          /\ \A i \in 1..Len(enhanced_chunks) :
                enhanced_chunks[i] = RunEnhance(i, windows[i][1], windows[i][2])
          /\ Len(windows) \in {Len(enhanced_chunks), Len(enhanced_chunks) + 1}
          /\ cpc \in {"merge", "done"} /\ enhanced_chunks # <<>>
                => Len(windows) = Len(enhanced_chunks)
          /\ ModelFailed =>
                /\ enhanced = <<>>
                /\ worker.task # NoTask => worker.pc \in {"model", "returned"}
                /\ worker.written = {}
                /\ \A p \in disk : p[1] # "processed"
                /\ backend["t1"].state # "SUCCESS"
                /\ worker.task = NoTask => backend["t1"].state = "FAILURE")
    /\ [][ModelFailed => (/\ windows' = windows
                          /\ enhanced_chunks' = enhanced_chunks
                          /\ enhanced' = enhanced
                          /\ disk' = disk)]_vars

\* The job has ended failed after the model invocation for the second of its
\* windows failed: two windows were invoked, one chunk was enhanced.
C32_Witness ==
    /\ ModelFailed
    /\ Len(windows) = 2
    /\ Len(enhanced_chunks) = 1
    /\ total_len > windows[2][2]
    /\ worker.task = NoTask
    /\ backend["t1"].state = "FAILURE"

====
